---------------------------- MODULE Spec2Model ----------------------------
(***************************************************************************)
(* Detection-fusion and escalation pipeline of the toxic-text keyboard     *)
(* filter: Normalizer (preprocess.py), span merger and renderers           *)
(* (text_sanitizer.py, keyboard_hook.py), Escalator (escalation.py),       *)
(* TextSanitizer.analyze and its callers (_process_line, dataset_eval.run).*)
(*                                                                         *)
(* A text is a sequence of characters; a character is a one-element        *)
(* string, or a name for a character that the module file cannot hold      *)
(* ("ZW", "FWa", "LIGff").  Probabilities are integers in thousandths      *)
(* (0.50 is 500).  A span is a record [st, ed, kind]; the matched text of  *)
(* the source's 4-tuple is raw[st:ed] of the snapshot and is not stored.   *)
(***************************************************************************)
EXTENDS Integers, Sequences, FiniteSets, TLC

(***************************************************************************)
(* Characters                                                              *)
(***************************************************************************)
LowerChars == {"a", "s", "e", "x", "u", "o", "k", "f", "t", "h"}
UpperChars == {"A", "S"}
DigitChars == {"4", "5"}
\* U+200B ZERO WIDTH SPACE (category Cf) and TAB (category Cc)
ControlChars == {"ZW", "TAB"}
\* U+FF41 FULLWIDTH a, U+FB00 LATIN SMALL LIGATURE ff, U+00A0 NO-BREAK SPACE
CompatChars == {"FWa", "LIGff", "NBSP"}
SymbolChars == {"!", "@", "$", "*", "-", "_"}
Alphabet ==
    LowerChars \cup UpperChars \cup DigitChars \cup ControlChars
        \cup CompatChars \cup SymbolChars \cup {" ", "'"}

\* str.lower() on one character
Lower(c) ==
    CASE c = "A" -> "a"
      [] c = "S" -> "s"
      [] OTHER -> c

\* \s of the re module
IsSpace(c) == c \in {" ", "TAB", "NBSP"}
\* [a-zA-Z0-9]
IsAsciiAlnum(c) == c \in LowerChars \cup UpperChars \cup DigitChars
\* \w of the re module (str patterns): alphanumerics and the underscore
IsWordChar(c) == IsAsciiAlnum(c) \/ c \in {"FWa", "LIGff", "_"}

Max(a, b) == IF a >= b THEN a ELSE b
Min(a, b) == IF a <= b THEN a ELSE b

RECURSIVE FlatMap(_, _)
\* ''.join(F(ch) for ch in t) for a character-to-text table F
FlatMap(F, t) == IF t = << >> THEN << >> ELSE F[Head(t)] \o FlatMap(F, Tail(t))

(***************************************************************************)
(* Normalizer (preprocess.py)                                              *)
(***************************************************************************)
strip_control_chars(t) == SelectSeq(t, LAMBDA c : c \notin ControlChars)

\* unicodedata.normalize("NFKC", .) on the characters of the alphabet
NFKC ==
    [c \in Alphabet |->
        CASE c = "FWa" -> <<"a">>
          [] c = "LIGff" -> <<"f", "f">>
          [] c = "NBSP" -> <<" ">>
          [] OTHER -> <<c>>]

normalize_unicode(t) == FlatMap(NFKC, t)

RECURSIVE RunLen(_, _)
\* length of the run of the character t[i] that starts at position i
RunLen(t, i) ==
    IF i < Len(t) /\ t[i + 1] = t[i] THEN 1 + RunLen(t, i + 1) ELSE 1

RECURSIVE CollapseFrom(_, _, _)
CollapseFrom(t, i, n) ==
    IF i > Len(t) THEN << >>
    ELSE LET r == RunLen(t, i)
         IN  IF r >= n + 1
             THEN [k \in 1..n |-> t[i]] \o CollapseFrom(t, i + r, n)
             ELSE <<t[i]>> \o CollapseFrom(t, i + 1, n)

\* re.sub(r'(.)\1{n,}', r'\1' * n, text): the comparison is case-sensitive
collapse_repeated_chars(t, n) == CollapseFrom(t, 1, n)

clean_symbols_but_keep_spaces(t) ==
    [i \in 1..Len(t) |->
        IF IsAsciiAlnum(t[i]) \/ IsSpace(t[i]) \/ t[i] = "'" THEN t[i] ELSE " "]

RECURSIVE SquashSpaces(_, _)
\* re.sub(r'\s+', ' ', t): inSpace says the previous character was whitespace
SquashSpaces(t, inSpace) ==
    IF t = << >> THEN << >>
    ELSE IF IsSpace(Head(t))
         THEN (IF inSpace THEN << >> ELSE <<" ">>) \o SquashSpaces(Tail(t), TRUE)
         ELSE <<Head(t)>> \o SquashSpaces(Tail(t), FALSE)

RECURSIVE LStrip(_)
LStrip(t) == IF t # << >> /\ IsSpace(Head(t)) THEN LStrip(Tail(t)) ELSE t

RECURSIVE RStrip(_)
RStrip(t) ==
    IF t # << >> /\ IsSpace(t[Len(t)]) THEN RStrip(SubSeq(t, 1, Len(t) - 1)) ELSE t

\* str.strip()
Strip(t) == RStrip(LStrip(t))

normalize_whitespace(t) == Strip(SquashSpaces(t, FALSE))

LowerText(t) == [i \in 1..Len(t) |-> Lower(t[i])]

preprocess(text) ==
    LowerText(
      normalize_whitespace(
        clean_symbols_but_keep_spaces(
          collapse_repeated_chars(
            normalize_unicode(strip_control_chars(text)), 3))))

(***************************************************************************)
(* Escalator (escalation.py)                                               *)
(***************************************************************************)
th_suggest == 500
th_warn == 700
th_enforce == 900

\* Escalator.base_action, mutant: the thresholds are exclusive
base_action_exclusive(p) ==
    IF p > th_enforce THEN "enforce"
    ELSE IF p > th_warn THEN "warn"
    ELSE IF p > th_suggest THEN "suggest"
    ELSE "pass"

\* Escalator.base_action
base_action(p) ==
    IF p >= th_enforce THEN "enforce"
    ELSE IF p >= th_warn THEN "warn"
    ELSE IF p >= th_suggest THEN "suggest"
    ELSE "pass"

\* ladder = ["suggest", "warn", "enforce"], indexed from 0 as in the source
ladder == [i \in 0..2 |-> CASE i = 0 -> "suggest" [] i = 1 -> "warn" [] OTHER -> "enforce"]
\* ladder.index(a)
ladder_index(a) == CHOOSE i \in 0..2 : ladder[i] = a
\* the order pass < suggest < warn < enforce of the four actions
Tier(a) == IF a = "pass" THEN 0 ELSE 1 + ladder_index(a)

\* self.memory.get(key, 0)
memory_get(mem, key) == IF key \in DOMAIN mem THEN mem[key] ELSE 0

\* the action Escalator.step returns, mutant: the history index is capped at
\* warn instead of len(ladder)-1
step_action_capped(mem, key, prob) ==
    LET base == base_action(prob)
    IN  IF base = "pass" THEN "pass"
        ELSE ladder[Max(ladder_index(base), Min(memory_get(mem, key), 1))]

\* the action Escalator.step returns, mutant: the counter is ignored
step_action_base_only(mem, key, prob) == base_action(prob)

\* the action Escalator.step returns
step_action(mem, key, prob) ==
    LET base == base_action(prob)
    IN  IF base = "pass" THEN "pass"
        ELSE LET c == memory_get(mem, key)
                 idx == Min(c, 2)
             IN  ladder[Max(ladder_index(base), idx)]

\* the memory Escalator.step leaves, mutant: a pass keeps the counter
step_memory_keep_on_pass(mem, key, prob) ==
    IF base_action(prob) = "pass" THEN mem
    ELSE [k \in DOMAIN mem \cup {key} |->
            IF k = key THEN memory_get(mem, key) + 1 ELSE mem[k]]

\* the memory Escalator.step leaves, mutant: a pass clears the whole map
step_memory_clear_on_pass(mem, key, prob) ==
    IF base_action(prob) = "pass" THEN << >>
    ELSE [k \in DOMAIN mem \cup {key} |->
            IF k = key THEN memory_get(mem, key) + 1 ELSE mem[k]]

\* the memory Escalator.step leaves, mutant: a non-passing step stores 1
step_memory_no_count(mem, key, prob) ==
    IF base_action(prob) = "pass"
    THEN [k \in DOMAIN mem \ {key} |-> mem[k]]
    ELSE [k \in DOMAIN mem \cup {key} |-> IF k = key THEN 1 ELSE mem[k]]

\* the memory Escalator.step leaves: pop on pass, else counter + 1
step_memory(mem, key, prob) ==
    IF base_action(prob) = "pass"
    THEN [k \in DOMAIN mem \ {key} |-> mem[k]]
    ELSE [k \in DOMAIN mem \cup {key} |->
            IF k = key THEN memory_get(mem, key) + 1 ELSE mem[k]]

(***************************************************************************)
(* Spans: merging and rendering (text_sanitizer.py, keyboard_hook.py)      *)
(***************************************************************************)
Span(st, ed, kind) == [st |-> st, ed |-> ed, kind |-> kind]

\* the sort key (x[0], x[1])
SpanKeyLE(a, b) == a.st < b.st \/ (a.st = b.st /\ a.ed <= b.ed)

RECURSIVE InsertSorted(_, _)
InsertSorted(s, x) ==
    IF s = << >> THEN <<x>>
    ELSE IF SpanKeyLE(Head(s), x) THEN <<Head(s)>> \o InsertSorted(Tail(s), x)
    ELSE <<x>> \o s

RECURSIVE SortSpans(_)
\* sorted(spans, key=lambda x: (x[0], x[1])): stable
SortSpans(s) ==
    IF s = << >> THEN << >>
    ELSE InsertSorted(SortSpans(SubSeq(s, 1, Len(s) - 1)), s[Len(s)])

\* one iteration of the merge loop of text_sanitizer._merge_spans, mutant:
\* the fused end is the later span's end (ed instead of max(ped, ed))
merge_step_last_end(merged, x) ==
    IF merged = << >> THEN <<x>>
    ELSE LET p == merged[Len(merged)]
         IN  IF x.st <= p.ed
             THEN [merged EXCEPT ![Len(merged)] = Span(p.st, x.ed, p.kind)]
             ELSE Append(merged, x)

\* one iteration of the merge loop of text_sanitizer._merge_spans, mutant:
\* nothing is fused
merge_step_append(merged, x) == Append(merged, x)

\* one iteration of the merge loop of text_sanitizer._merge_spans
merge_step(merged, x) ==
    IF merged = << >> THEN <<x>>
    ELSE LET p == merged[Len(merged)]
         IN  IF x.st <= p.ed
             THEN [merged EXCEPT ![Len(merged)] = Span(p.st, Max(p.ed, x.ed), p.kind)]
             ELSE Append(merged, x)

RECURSIVE MergeLoop(_, _)
MergeLoop(sorted, merged) ==
    IF sorted = << >> THEN merged
    ELSE MergeLoop(Tail(sorted), merge_step(merged, Head(sorted)))

\* text_sanitizer._merge_spans
_merge_spans(spans) == MergeLoop(SortSpans(spans), << >>)

\* one iteration of the merge loop of keyboard_hook._merge_spans (and main.py)
hook_merge_step(merged, x) ==
    IF merged = << >> THEN <<x>>
    ELSE LET p == merged[Len(merged)]
         IN  IF x.st <= p.ed
             THEN [merged EXCEPT ![Len(merged)] =
                     Span(p.st, Max(p.ed, x.ed), IF p.kind # "ml" THEN p.kind ELSE x.kind)]
             ELSE Append(merged, x)

RECURSIVE HookMergeLoop(_, _)
HookMergeLoop(sorted, merged) ==
    IF sorted = << >> THEN merged
    ELSE HookMergeLoop(Tail(sorted), hook_merge_step(merged, Head(sorted)))

\* keyboard_hook._merge_spans
hook_merge_spans(spans) == HookMergeLoop(SortSpans(spans), << >>)

\* the bound of a Python slice: a negative index counts from the end, and the
\* result is clamped into 0..len
SliceBound(t, i) == IF i < 0 THEN Max(0, Len(t) + i) ELSE Min(i, Len(t))

\* raw[i:j], offsets from 0
PySlice(t, i, j) ==
    LET a == SliceBound(t, i)
        b == SliceBound(t, j)
    IN  IF a < b THEN SubSeq(t, a + 1, b) ELSE << >>

\* raw[i:]
PySliceFrom(t, i) == PySlice(t, i, Len(t))

RECURSIVE EraseLoop(_, _, _)
EraseLoop(raw, spans, prev) ==
    IF spans = << >> THEN PySliceFrom(raw, prev)
    ELSE PySlice(raw, prev, Head(spans).st) \o EraseLoop(raw, Tail(spans), Head(spans).ed)

\* keyboard_hook._erase_by_spans
_erase_by_spans(raw, spans) ==
    LET m == hook_merge_spans(spans)
    IN  IF m = << >> THEN raw ELSE EraseLoop(raw, m, 0)

\* the positions (from 0) one span masks after clamping
MaskedBy(raw, sp) ==
    LET s == Max(0, Min(sp.st, Len(raw)))
        e == Max(s, Min(sp.ed, Len(raw)))
    IN  s..(e - 1)

\* the masking loop shared by _mask_by_spans and TextSanitizer._mask
MaskChars(raw, spans, ch) ==
    [i \in 1..Len(raw) |->
        IF \E k \in 1..Len(spans) : (i - 1) \in MaskedBy(raw, spans[k])
        THEN ch ELSE raw[i]]

\* keyboard_hook._mask_by_spans
_mask_by_spans(raw, spans) ==
    LET m == hook_merge_spans(spans)
    IN  IF m = << >> THEN raw ELSE MaskChars(raw, m, "*")

\* TextSanitizer._mask
_mask(raw, spans) == IF spans = << >> THEN raw ELSE MaskChars(raw, spans, "*")

\* keyboard_hook.MODE
MODE == "erase"

\* keyboard_hook._apply_policy
_apply_policy(line, spans) ==
    IF MODE = "mask" THEN _mask_by_spans(line, spans) ELSE _erase_by_spans(line, spans)

(***************************************************************************)
(* ExactMatcher (word_match.py) and FuzzyMatcher (fuzzy_match.py)          *)
(***************************************************************************)
\* DEFAULT_TOXIC + DEFAULT_SEXUAL, deduplicated in order: the vocabulary of
\* WordMatcher when the wordlist files are missing
ExactVocab ==
    <<
      <<"b", "i", "t", "c", "h">>, <<"a", "s", "s">>,
      <<"f", "u", "c", "k", "e", "r">>, <<"k", "i", "l", "l">>,
      <<"s", "l", "u", "r">>, <<"h", "a", "t", "e">>,
      <<"d", "i", "c", "k">>, <<"p", "u", "s", "s", "y">>,
      <<"c", "u", "m">>, <<"b", "o", "o", "b", "s">>,
      <<"r", "a", "p", "e">>, <<"c", "o", "c", "k">>
    >>

\* the lemmas of data/wordlists/toxic.txt and sexual.txt of the deployment
TOXIC_WORDS == << <<"a", "s", "s">> >>
SEXUAL_WORDS == << >>

\* text[i-1 .. ] starts with w, ignoring case (re.IGNORECASE); i from 1
StartsWithAt(t, i, w) ==
    /\ i + Len(w) - 1 <= Len(t)
    /\ \A k \in 1..Len(w) : Lower(t[i + k - 1]) = Lower(w[k])

\* \b between the characters at positions p and p+1 (p in 0..Len(t))
WordBoundary(t, p) ==
    (p >= 1 /\ IsWordChar(t[p])) # (p < Len(t) /\ IsWordChar(t[p + 1]))

\* the alternatives of \b(w1|w2|...)\b that match at i, as indices of vocab
ExactAlternativesAt(vocab, t, i) ==
    {k \in 1..Len(vocab) :
        /\ WordBoundary(t, i - 1)
        /\ StartsWithAt(t, i, vocab[k])
        /\ WordBoundary(t, i + Len(vocab[k]) - 1)}

RECURSIVE ExactFindIter(_, _, _)
\* pattern.finditer(text) from position i: leftmost matches, the first
\* alternative that matches wins, the scan goes on after the match
ExactFindIter(vocab, t, i) ==
    IF i > Len(t) THEN << >>
    ELSE LET alts == ExactAlternativesAt(vocab, t, i)
         IN  IF alts = {} THEN ExactFindIter(vocab, t, i + 1)
             ELSE LET k == CHOOSE a \in alts : \A b \in alts : a <= b
                      n == Len(vocab[k])
                  IN  <<Span(i - 1, i - 1 + n, "exact")>>
                          \o ExactFindIter(vocab, t, i + n)

\* word_match.find_exact
find_exact(text) == ExactFindIter(ExactVocab, text, 1)

\* letter_group over LEET_MAP: the alternatives of one letter, each a text
LeetAlternatives(ch) ==
    CASE ch = "a" -> << <<"a">>, <<"@">>, <<"4">> >>
      [] ch = "b" -> << <<"b">>, <<"8">> >>
      [] ch = "e" -> << <<"e">>, <<"3">> >>
      [] ch = "i" -> << <<"i">>, <<"1">>, <<"l">>, <<"!">> >>
      [] ch = "l" -> << <<"l">>, <<"1">>, <<"i">> >>
      [] ch = "o" -> << <<"o">>, <<"0">> >>
      [] ch = "s" -> << <<"s">>, <<"$">>, <<"5">> >>
      [] ch = "t" -> << <<"t">>, <<"7">> >>
      [] ch = "g" -> << <<"g">>, <<"9">> >>
      [] ch = "c" -> << <<"c">>, <<"(">> >>
      [] ch = "k" -> << <<"k">>, <<"|", "<">> >>
      [] OTHER -> << <<ch>> >>

\* [\W_]: a separator character between two letter groups
IsSeparator(c) == ~IsWordChar(c) \/ c = "_"

RECURSIVE SepRun(_, _)
\* the number of separator characters from position i on
SepRun(t, i) == IF i <= Len(t) /\ IsSeparator(t[i]) THEN 1 + SepRun(t, i + 1) ELSE 0

RECURSIVE FuzzyMatchGroup(_, _, _, _)
RECURSIVE FuzzyTryAlternatives(_, _, _, _, _)
RECURSIVE FuzzyTrySeparators(_, _, _, _, _)

\* the end (last position matched, from 1) of the match of the letter groups
\* g..Len(w) of make_fuzzy_regex(w) at position i, or -1: the regex engine's
\* backtracking order (alternatives left to right, separators greedy)
FuzzyMatchGroup(w, g, t, i) == FuzzyTryAlternatives(w, g, t, i, 1)

FuzzyTryAlternatives(w, g, t, i, a) ==
    LET alts == LeetAlternatives(Lower(w[g]))
    IN  IF a > Len(alts) THEN -1
        ELSE IF ~StartsWithAt(t, i, alts[a])
             THEN FuzzyTryAlternatives(w, g, t, i, a + 1)
             ELSE LET next == i + Len(alts[a])
                      r == IF g = Len(w) THEN next - 1
                           ELSE FuzzyTrySeparators(w, g, t, next, SepRun(t, next))
                  IN  IF r # -1 THEN r ELSE FuzzyTryAlternatives(w, g, t, i, a + 1)

FuzzyTrySeparators(w, g, t, i, n) ==
    IF n < 0 THEN -1
    ELSE LET r == FuzzyMatchGroup(w, g + 1, t, i + n)
         IN  IF r # -1 THEN r ELSE FuzzyTrySeparators(w, g, t, i, n - 1)

RECURSIVE FuzzyFindIter(_, _, _, _)
\* rx.finditer(text) for the pattern of lemma w, from position i
FuzzyFindIter(w, src, t, i) ==
    IF i > Len(t) THEN << >>
    ELSE LET e == FuzzyMatchGroup(w, 1, t, i)
         IN  IF e = -1 THEN FuzzyFindIter(w, src, t, i + 1)
             ELSE <<Span(i - 1, e, src)>> \o FuzzyFindIter(w, src, t, e + 1)

RECURSIVE FuzzyAllPatterns(_, _, _)
\* the matches of every pattern compile_patterns keeps (lemmas of length >= 2)
FuzzyAllPatterns(words, src, t) ==
    IF words = << >> THEN << >>
    ELSE (IF Len(Head(words)) < 2 THEN << >> ELSE FuzzyFindIter(Head(words), src, t, 1))
            \o FuzzyAllPatterns(Tail(words), src, t)

\* the sort key (x[0], -x[1]) of find_fuzzy
FuzzyKeyLE(a, b) == a.st < b.st \/ (a.st = b.st /\ a.ed >= b.ed)

RECURSIVE FuzzyInsert(_, _)
FuzzyInsert(s, x) ==
    IF s = << >> THEN <<x>>
    ELSE IF FuzzyKeyLE(Head(s), x) THEN <<Head(s)>> \o FuzzyInsert(Tail(s), x)
    ELSE <<x>> \o s

RECURSIVE FuzzySort(_)
FuzzySort(s) ==
    IF s = << >> THEN << >>
    ELSE FuzzyInsert(FuzzySort(SubSeq(s, 1, Len(s) - 1)), s[Len(s)])

\* fuzzy_match.find_fuzzy
find_fuzzy(text) ==
    IF text = << >> THEN << >>
    ELSE FuzzySort(FuzzyAllPatterns(SEXUAL_WORDS, "fuzzy_sexual", text)
                     \o FuzzyAllPatterns(TOXIC_WORDS, "fuzzy_toxic", text))

(***************************************************************************)
(* Token heuristics of the Localizer (text_sanitizer.py)                   *)
(***************************************************************************)
BASE_TOXIC ==
    {
      <<"b", "i", "t", "c", "h">>, <<"a", "s", "s">>,
      <<"f", "u", "c", "k">>, <<"i", "d", "i", "o", "t">>,
      <<"b", "a", "s", "t", "a", "r", "d">>, <<"s", "l", "u", "r">>,
      <<"k", "i", "l", "l">>, <<"m", "o", "r", "o", "n">>,
      <<"s", "t", "u", "p", "i", "d">>, <<"d", "u", "m", "b">>,
      <<"d", "i", "c", "k", "h", "e", "a", "d">>,
      <<"s", "c", "u", "m", "b", "a", "g">>,
      <<"b", "u", "l", "l", "s", "h", "i", "t">>,
      <<"p", "u", "s", "s", "y">>, <<"b", "o", "o", "b", "s">>,
      <<"c", "o", "c", "k">>, <<"p", "e", "n", "i", "s">>,
      <<"v", "a", "g", "i", "n", "a">>, <<"f", "u", "c", "k", "e", "r">>,
      <<"s", "e", "x">>, <<"p", "o", "r", "n">>
    }

_STOPWORDS ==
    {
      <<"i">>, <<"y", "o", "u">>, <<"u">>, <<"u", "r">>, <<"h", "e">>,
      <<"s", "h", "e">>, <<"i", "t">>, <<"w", "e">>,
      <<"t", "h", "e", "y">>, <<"m", "e">>, <<"h", "i", "m">>,
      <<"h", "e", "r">>, <<"t", "h", "e", "m">>, <<"u", "s">>,
      <<"a", "m">>, <<"i", "s">>, <<"a", "r", "e">>, <<"w", "a", "s">>,
      <<"w", "e", "r", "e">>, <<"b", "e">>, <<"b", "e", "e", "n">>,
      <<"b", "e", "i", "n", "g">>, <<"a">>, <<"a", "n">>,
      <<"t", "h", "e">>, <<"t", "o">>, <<"f", "o", "r">>, <<"o", "f">>,
      <<"i", "n">>, <<"o", "n">>, <<"a", "t">>, <<"b", "y">>,
      <<"a", "n", "d">>, <<"o", "r">>, <<"b", "u", "t">>, <<"i", "f">>,
      <<"t", "h", "e", "n">>, <<"e", "l", "s", "e">>,
      <<"w", "i", "t", "h">>, <<"a", "b", "o", "u", "t">>
    }

_HIGH_FREQ_HARMS ==
    {
      <<"l", "i", "k", "e">>, <<"l", "o", "v", "e">>,
      <<"w", "a", "n", "t">>, <<"h", "a", "v", "e">>,
      <<"m", "a", "k", "e">>, <<"g", "e", "t">>, <<"g", "o">>,
      <<"s", "e", "e">>, <<"t", "h", "i", "n", "k">>,
      <<"k", "n", "o", "w">>, <<"l", "o", "o", "k">>,
      <<"c", "o", "m", "e">>, <<"u", "s", "e">>, <<"t", "a", "k", "e">>,
      <<"g", "i", "v", "e">>, <<"w", "a", "t", "c", "h">>,
      <<"t", "a", "l", "k">>
    }

\* re.sub(r"[^a-z0-9]", "", tok.lower())
_normalize_word(tok) ==
    SelectSeq(LowerText(tok), LAMBDA c : c \in LowerChars \cup DigitChars)

\* a in b for two texts
Contains(b, a) ==
    \E i \in 1..(Len(b) - Len(a) + 1) : SubSeq(b, i, i + Len(a) - 1) = a

\* b with its character at position i removed
DropAt(b, i) == SubSeq(b, 1, i - 1) \o SubSeq(b, i + 1, Len(b))

\* text_sanitizer._ed1
_ed1(a, b) ==
    IF a = b THEN TRUE
    ELSE IF Len(a) - Len(b) > 1 \/ Len(b) - Len(a) > 1 THEN FALSE
    ELSE IF Len(a) + 1 = Len(b) THEN \E i \in 1..Len(b) : a = DropAt(b, i)
    ELSE IF Len(b) + 1 = Len(a) THEN \E i \in 1..Len(a) : b = DropAt(a, i)
    ELSE Cardinality({i \in 1..Len(a) : a[i] # b[i]}) <= 1

\* tox in norm or norm in tox or _ed1(norm, tox), for some tox in BASE_TOXIC
NearToxic(norm) ==
    \E tox \in BASE_TOXIC : Contains(norm, tox) \/ Contains(tox, norm) \/ _ed1(norm, tox)

\* re.search(r"[^a-z0-9]", tok.lower())
HasNonAlnum(tok) == \E i \in 1..Len(tok) : Lower(tok[i]) \notin LowerChars \cup DigitChars

\* text_sanitizer._token_is_suspicious
_token_is_suspicious(tok) ==
    LET norm == _normalize_word(tok)
    IN  IF norm = << >> THEN FALSE
        ELSE IF Len(norm) <= 1 THEN FALSE
        ELSE IF norm \in _STOPWORDS \/ norm \in _HIGH_FREQ_HARMS THEN FALSE
        ELSE IF NearToxic(norm) THEN TRUE
        ELSE IF HasNonAlnum(tok) THEN TRUE
        ELSE Len(norm) >= 5 /\ norm \notin _HIGH_FREQ_HARMS

RECURSIVE NonSpaceRun(_, _)
NonSpaceRun(t, i) == IF i <= Len(t) /\ ~IsSpace(t[i]) THEN 1 + NonSpaceRun(t, i + 1) ELSE 0

RECURSIVE TokensFrom(_, _)
TokensFrom(t, i) ==
    IF i > Len(t) THEN << >>
    ELSE IF IsSpace(t[i]) THEN TokensFrom(t, i + 1)
    ELSE LET n == NonSpaceRun(t, i)
         IN  <<[st |-> i - 1, ed |-> i - 1 + n]>> \o TokensFrom(t, i + n)

\* list(re.finditer(r"\S+", t)): the (start, end) of every token
Tokens(t) == TokensFrom(t, 1)

\* text_sanitizer._char_span_from_word_range
_char_span_from_word_range(raw, i, j) ==
    LET toks == Tokens(raw)
    IN  IF toks = << >> \/ i >= Len(toks) \/ i >= j THEN <<0, 0>>
        ELSE <<toks[i + 1].st, toks[Min(j, Len(toks))].ed>>

(***************************************************************************)
(* Localizer and fallbacks (TextSanitizer, text_sanitizer.py)              *)
(*                                                                         *)
(* The classifier is a black box: within one analyze call it is a function *)
(* clf from the texts scored in that call to probabilities.                *)
(***************************************************************************)
\* the neutral filler of the masking search, " the "
Filler == <<" ", "t", "h", "e", " ">>

\* raw[:st] + " the " + raw[ed:]
MaskWindow(raw, st, ed) == PySlice(raw, 0, st) \o Filler \o PySliceFrom(raw, ed)

\* the test of a window, mutant: every window is scored
WindowSuspicious_any(raw, toks, i, j) == TRUE

\* any(_token_is_suspicious(t) for t in words[i:j]), i and j from 0
WindowSuspicious(raw, toks, i, j) ==
    \E k \in (i + 1)..j : _token_is_suspicious(PySlice(raw, toks[k].st, toks[k].ed))

RECURSIVE WindowsOfSize(_, _, _, _)
\* the windows of n words from word i on that the search scores, in order
WindowsOfSize(raw, toks, n, i) ==
    IF i > Len(toks) - n THEN << >>
    ELSE LET j == i + n
             sp == _char_span_from_word_range(raw, i, j)
             rest == WindowsOfSize(raw, toks, n, i + 1)
         IN  IF ~WindowSuspicious(raw, toks, i, j) THEN rest
             ELSE IF sp[2] <= sp[1] THEN rest
             ELSE <<[st |-> sp[1], ed |-> sp[2],
                     masked_pre |-> preprocess(MaskWindow(raw, sp[1], sp[2]))]>> \o rest

\* every window of 1, 2 and 3 words that holds a suspicious token, in the
\* order of the loops "for n in (1, 2, 3): for i in range(...)"
ScoredWindows(raw) ==
    LET toks == Tokens(raw)
    IN  WindowsOfSize(raw, toks, 1, 0) \o WindowsOfSize(raw, toks, 2, 0)
            \o WindowsOfSize(raw, toks, 3, 0)

\* drop_threshold=0.10 of _ml_localize_spans
drop_threshold == 100

\* the candidates (drop, st, ed) of the windows whose drop exceeds the margin
Candidates(wins, base_prob, clf) ==
    LET c == [k \in 1..Len(wins) |->
                [drop |-> base_prob - clf[wins[k].masked_pre],
                 st |-> wins[k].st, ed |-> wins[k].ed]]
    IN  SelectSeq(c, LAMBDA x : x.drop > drop_threshold)

RECURSIVE InsertByDrop(_, _)
InsertByDrop(s, x) ==
    IF s = << >> THEN <<x>>
    ELSE IF Head(s).drop >= x.drop THEN <<Head(s)>> \o InsertByDrop(Tail(s), x)
    ELSE <<x>> \o s

RECURSIVE SortByDrop(_)
\* candidates.sort(key=lambda x: x[0], reverse=True): stable
SortByDrop(s) ==
    IF s = << >> THEN << >>
    ELSE InsertByDrop(SortByDrop(SubSeq(s, 1, Len(s) - 1)), s[Len(s)])

\* the overlap test of the selection loop, mutant: a candidate that ends
\* inside a used range is let through
OverlapsUsed_start_only(c, chosen) ==
    \E k \in 1..Len(chosen) : chosen[k].st <= c.st /\ c.st < chosen[k].ed

\* not (ed <= u_st or st >= u_ed) for some used range
OverlapsUsed(c, chosen) ==
    \E k \in 1..Len(chosen) : ~(c.ed <= chosen[k].st \/ c.st >= chosen[k].ed)

RECURSIVE GreedyChoose(_, _)
\* the selection loop: skip a candidate that overlaps a chosen one, stop at 3
GreedyChoose(cands, chosen) ==
    IF cands = << >> THEN chosen
    ELSE IF OverlapsUsed(Head(cands), chosen) THEN GreedyChoose(Tail(cands), chosen)
    ELSE LET c2 == Append(chosen, Head(cands))
         IN  IF Len(c2) >= 3 THEN c2 ELSE GreedyChoose(Tail(cands), c2)

\* TextSanitizer._ml_localize_spans, mutant: the candidates are not ranked,
\* the selection takes them in the order of the scan
_ml_localize_spans_scan_order(raw, base_prob, clf) ==
    LET wins == ScoredWindows(raw)
        chosen == GreedyChoose(Candidates(wins, base_prob, clf), << >>)
    IN  [k \in 1..Len(chosen) |-> Span(chosen[k].st, chosen[k].ed, "ml")]

\* TextSanitizer._ml_localize_spans
_ml_localize_spans(raw, base_prob, clf) ==
    LET wins == ScoredWindows(raw)
        chosen == GreedyChoose(SortByDrop(Candidates(wins, base_prob, clf)), << >>)
    IN  [k \in 1..Len(chosen) |-> Span(chosen[k].st, chosen[k].ed, "ml")]

\* TextSanitizer._substring_fallback
_substring_fallback(raw) ==
    LET toks == Tokens(raw)
        hit(k) == LET norm == _normalize_word(PySlice(raw, toks[k].st, toks[k].ed))
                  IN  norm # << >> /\ NearToxic(norm)
        idx == SelectSeq([k \in 1..Len(toks) |-> k], hit)
    IN  _merge_spans([k \in 1..Len(idx) |->
                        Span(toks[idx[k]].st, toks[idx[k]].ed, "ml-substring")])

\* the score _heuristic_token_pick gives a token
HeuristicScore(tok) ==
    (IF Len(_normalize_word(tok)) >= 4 THEN 1 ELSE 0)
        + (IF \E i \in 1..Len(tok) : ~IsAsciiAlnum(tok[i]) THEN 2 ELSE 0)

\* TextSanitizer._heuristic_token_pick: the first token of the highest score
_heuristic_token_pick(raw) ==
    LET toks == Tokens(raw)
        tok(k) == PySlice(raw, toks[k].st, toks[k].ed)
        elig == {k \in 1..Len(toks) : _normalize_word(tok(k)) \notin _STOPWORDS}
    IN  IF elig = {} THEN << >>
        ELSE LET best == CHOOSE k \in elig :
                            \A m \in elig :
                                \/ HeuristicScore(tok(k)) > HeuristicScore(tok(m))
                                \/ (HeuristicScore(tok(k)) = HeuristicScore(tok(m)) /\ k <= m)
             IN  IF HeuristicScore(tok(best)) > 0
                 THEN <<Span(toks[best].st, toks[best].ed, "ml-heuristic")>>
                 ELSE << >>

\* kind.startswith("ml")
IsMlKind(kind) == kind \in {"ml", "ml-substr", "ml-substring", "ml-heuristic"}

\* what _refine_spans_to_tokens puts in place of one span
RefineOne(raw, sp) ==
    IF ~IsMlKind(sp.kind) THEN <<sp>>
    ELSE LET inner == PySlice(raw, sp.st, sp.ed)
             toks == Tokens(inner)
             tok(k) == PySlice(raw, sp.st + toks[k].st, sp.st + toks[k].ed)
             susp == SelectSeq([k \in 1..Len(toks) |-> k],
                               LAMBDA k : _token_is_suspicious(tok(k)))
             near == {k \in 1..Len(toks) : NearToxic(_normalize_word(tok(k)))}
         IN  IF susp # << >>
             THEN [k \in 1..Len(susp) |->
                     Span(sp.st + toks[susp[k]].st, sp.st + toks[susp[k]].ed, "ml")]
             ELSE IF near # {}
             THEN LET f == CHOOSE k \in near : \A m \in near : k <= m
                  IN  <<Span(sp.st + toks[f].st, sp.st + toks[f].ed, "ml-substr")>>
             ELSE <<sp>>

RECURSIVE RefineAll(_, _)
RefineAll(raw, spans) ==
    IF spans = << >> THEN << >>
    ELSE RefineOne(raw, Head(spans)) \o RefineAll(raw, Tail(spans))

\* text_sanitizer._refine_spans_to_tokens
_refine_spans_to_tokens(raw, spans) ==
    IF spans = << >> THEN spans ELSE _merge_spans(RefineAll(raw, spans))

(***************************************************************************)
(* TextSanitizer.analyze and its callers                                   *)
(***************************************************************************)
\* the spans of the two lexical matchers, merged (analyze, "regex spans")
LexicalSpans(pre) == _merge_spans(find_exact(pre) \o find_fuzzy(pre))

\* the spans of the "ML fallback" block of analyze
MlFallbackSpans(text, prob, clf) ==
    LET a == _ml_localize_spans(text, prob, clf)
    IN  IF a # << >> THEN a
        ELSE LET b == _substring_fallback(text)
             IN  IF b # << >> THEN b
                 ELSE IF prob >= 980 THEN _heuristic_token_pick(text)
                 ELSE << >>

\* the test that opens the "ML fallback" block of analyze, mutant: the
\* lexical spans are not looked at
ml_fallback_gate_any_lex(lex, prob) == prob >= th_enforce

\* the test that opens the "ML fallback" block of analyze:
\* not spans and prob >= self.esc.th_enforce
ml_fallback_gate(lex, prob) == lex = << >> /\ prob >= th_enforce

\* TextSanitizer.analyze up to its call of the Escalator: the normalized
\* text, the score and the spans of text, and the masked text; clf is the
\* classifier
analyze_spans(text, clf) ==
    LET pre == preprocess(text)
        lex == LexicalSpans(pre)
        prob == clf[pre]
        found == IF ml_fallback_gate(lex, prob)
                 THEN MlFallbackSpans(text, prob, clf)
                 ELSE lex
        spans == _merge_spans(_refine_spans_to_tokens(text, found))
    IN  [raw |-> text, pre |-> pre, spans |-> spans, ml_prob |-> prob,
         sanitized |-> _mask(text, spans)]

\* TextSanitizer.analyze from its call self.esc.step(key=pre, prob=prob):
\* the result record, and in field memory the map the Escalator is left
\* with; mem is self.esc.memory, a what analyze has computed so far
analyze_step(mem, a) ==
    [raw |-> a.raw, pre |-> a.pre, spans |-> a.spans, ml_prob |-> a.ml_prob,
     action |-> step_action(mem, a.pre, a.ml_prob),
     sanitized |-> a.sanitized,
     memory |-> step_memory(mem, a.pre, a.ml_prob)]

\* TextSanitizer.analyze
analyze(mem, text, clf) == analyze_step(mem, analyze_spans(text, clf))

\* keyboard_hook._process_line after its call of analyze, mutant: the rule
\* for ML-only spans is missing
_process_line_no_ml_rule(r) ==
    LET line == r.raw
        out == IF r.spans # << >> THEN _apply_policy(line, r.spans) ELSE line
    IN  IF r.action = "pass" THEN [action |-> "pass", text |-> line]
        ELSE IF r.action = "enforce" /\ (r.spans = << >> \/ Strip(out) = Strip(line))
        THEN [action |-> "warn", text |-> line]
        ELSE [action |-> r.action, text |-> out]

\* keyboard_hook._process_line (and main._process_line) after its call of
\* analyze: the pair (action, text) it returns for the result r
_process_line(r) ==
    LET line == r.raw
        out == IF r.spans # << >> THEN _apply_policy(line, r.spans) ELSE line
        ml_only == r.spans # << >> /\ \A k \in 1..Len(r.spans) : r.spans[k].kind = "ml"
    IN  IF r.action = "pass" THEN [action |-> "pass", text |-> line]
        ELSE IF r.action = "enforce" /\ (r.spans = << >> \/ Strip(out) = Strip(line))
        THEN [action |-> "warn", text |-> line]
        ELSE IF r.action = "enforce" /\ ml_only /\ r.ml_prob < 985
        THEN [action |-> "warn", text |-> line]
        ELSE [action |-> r.action, text |-> out]

\* dataset_eval.run: the action and the sanitized text of the record written
\* for the result r
dataset_record(r) == [action |-> r.action, text |-> r.sanitized]

(***************************************************************************)
(* State                                                                   *)
(***************************************************************************)
VARIABLES
    memory,     \* Escalator.memory: key -> repeat counter
    call,       \* the last Escalator.step call: its key, prob and result, and
                \* the history of its key before it
    hist,       \* history, per key stepped: its steps since its last pass
    res,        \* the result of the last TextSanitizer.analyze call
    reported,   \* what the caller of that analyze call reported
    streak,     \* history, per key: its calls since its last pass, -1 once
                \* one of them was above the suggest band
    mergeIn,    \* the argument of _merge_spans
    mergeOut,   \* the lists the two mergers return for it
    normIn,     \* the argument of preprocess
    normOut,    \* preprocess(normIn) and preprocess(preprocess(normIn))
    anIn,       \* the text and the classifier of one analyze call looked at alone
    anOut,      \* what that call computed on its way, and whether it raised
    demoMemory, \* the memory of the Escalator the suggestions demo creates
    pc,         \* "input" before and "done" after a pure function is applied
    files,      \* the wordlist and configuration files: how each one is found
    built,      \* what each constructor of the pipeline gave
    renderIn,   \* the text and the span list given to the renderers
    renderOut,  \* what each renderer returns for them
    program,    \* which part of run_hook is serving lines: the listener, the
                \* CLI started when pynput cannot be imported, or the CLI
                \* the listener's thread falls back to
    instMemory, \* per TextSanitizer instance: the memory of its Escalator
    threadAt,   \* per thread: where it is inside Escalator.step
    stepLog,    \* history: per instance the threads that stepped it, and
                \* per key the non-passing steps begun since its last pass
    locIn,      \* the text, the probability and the classifier given to
                \* _ml_localize_spans
    locOut,     \* the spans it returns
    buffer,     \* run_hook: the characters of the line being typed
    injecting,  \* run_hook: TRUE while _enforce_in_active_window runs
    enforcing,  \* the arguments of the running _enforce_in_active_window
    last_hash,  \* run_hook: the hash kept to skip a duplicate line
    queue,      \* the key events the listener has not handled yet, each
                \* with its origin: the user or the hook's own injection
    window,     \* the text of the line in the active window
    entered,    \* whether an Enter was handled before (last_enter_ts)
    lastEvent,  \* history: the event the last on_press call handled
    hookLog     \* history: the user's actions, the analyze calls, the
                \* injections and the lines skipped as duplicates so far,
                \* the line last analysed, the last replacement injected,
                \* and which of the two came last

vars ==
    <<memory, call, hist, res, reported, streak, mergeIn, mergeOut,
      normIn, normOut, anIn, anOut, demoMemory, pc, files, built,
      renderIn, renderOut, program, instMemory, threadAt, stepLog,
      locIn, locOut, buffer, injecting, enforcing, last_hash, queue, window,
      entered, lastEvent, hookLog>>

\* the state of the programs that run beside the pipeline
coreVars ==
    <<memory, call, hist, res, reported, streak, mergeIn, mergeOut, normIn,
      normOut, anIn, anOut, demoMemory>>
constructVars == <<files, built>>
renderVars == <<renderIn, renderOut>>
threadVars == <<program, instMemory, threadAt, stepLog>>
locVars == <<locIn, locOut>>
hookVars ==
    <<buffer, injecting, enforcing, last_hash, queue, window, entered,
      lastEvent, hookLog>>
lateVars == <<constructVars, renderVars, threadVars, locVars, hookVars>>

\* the repeat counter is unbounded in the source; steps stop at this count
MaxCount == 4

NoCall ==
    [key |-> 0, prob |-> 0, act |-> "none", c |-> 0, prevAct |-> "none",
     prevBase |-> "none"]
NoResult ==
    [raw |-> << >>, pre |-> << >>, spans |-> << >>, ml_prob |-> 0,
     action |-> "none", sanitized |-> << >>]
NoReport == [by |-> "none", action |-> "none", text |-> << >>]

EscalatorIdle == memory = << >> /\ call = NoCall /\ hist = << >>
PipelineIdle == res = NoResult /\ reported = NoReport /\ streak = << >>
MergeIdle == mergeIn = << >> /\ mergeOut = [san |-> << >>, hook |-> << >>]
NormalizerIdle == normIn = << >> /\ normOut = [once |-> << >>, twice |-> << >>]
NoTrace ==
    [raised |-> FALSE, calls |-> << >>, lex |-> << >>, ran |-> {},
     loc |-> << >>, sub |-> << >>, heur |-> << >>]
AnalyzeIdle == anIn = [text |-> << >>, clf |-> << >>] /\ anOut = NoTrace
DemoIdle == demoMemory = << >>

\* the files a constructor reads, and what the file system says of each:
\* a file with terms or settings, an empty file, no file, or a path that
\* exists and cannot be opened for reading
FileNames ==
    {"data/toxic.txt", "data/sexual.txt", "data/wordlists/toxic.txt",
     "data/wordlists/sexual.txt", "config.yaml"}
FileStates == {"present", "empty", "missing", "unreadable"}
Constructors == {"WordMatcher", "fuzzy_match", "Escalator", "TextSanitizer"}
NotBuilt == [c \in Constructors |-> "none"]
ConstructIdle == files = [f \in FileNames |-> "present"] /\ built = NotBuilt
NoRender == [mask |-> << >>, erase |-> << >>, san |-> << >>]
RenderIdle == renderIn = [raw |-> << >>, spans |-> << >>] /\ renderOut = NoRender
\* the TextSanitizer of run_hook and the one run_cli creates
Instances == {"hook", "cli"}
\* pynput's listener thread, the thread of _run_and_join, and the thread
\* run_hook starts for the CLI when pynput cannot be imported
Threads == {"listener", "runner", "cli", "worker"}
NotStepping == [at |-> "idle", inst |-> "none", key |-> 0, c |-> 0]
ThreadsIdle ==
    /\ program = "none"
    /\ instMemory = [i \in Instances |-> << >>]
    /\ threadAt = [t \in Threads |-> NotStepping]
    /\ stepLog = [i \in Instances |-> [users |-> {}, begun |-> << >>]]
LocalizeIdle ==
    locIn = [raw |-> << >>, prob |-> 0, clf |-> << >>] /\ locOut = << >>
\* last_hash = None
None == <<"None">>
NoEnforce == [original |-> << >>, replacement |-> << >>]
NoEvent == [key |-> "none", synth |-> FALSE]
NoHookLog ==
    [user |-> 0, analyzed |-> 0, injected |-> 0, skipped |-> 0,
     line |-> None, replacement |-> None, recorded |-> None]
HookIdle ==
    /\ buffer = << >> /\ injecting = FALSE /\ enforcing = NoEnforce
    /\ last_hash = None /\ queue = << >> /\ window = << >>
    /\ entered = FALSE /\ lastEvent = NoEvent /\ hookLog = NoHookLog
LateIdle ==
    ConstructIdle /\ RenderIdle /\ ThreadsIdle /\ LocalizeIdle /\ HookIdle

(***************************************************************************)
(* The Escalator on its own: step(key, prob) for any key and probability   *)
(***************************************************************************)
NumKeys == 2
Keys == 1..NumKeys
\* the probabilities at and just below each threshold
StepProbs == {th_suggest - 1, th_suggest, th_warn - 1, th_warn,
              th_enforce - 1, th_enforce}

NoHist == [n |-> 0, act |-> "none", base |-> "none"]

\* the history of key after one more step: how many non-passing steps it had
\* since its last pass (0 when a pass has just ended them), and the last
\* action returned with its base action
hist_after(h, key, prob, act) ==
    IF base_action(prob) = "pass"
    THEN [k \in DOMAIN h |-> IF k = key THEN NoHist ELSE h[k]]
    ELSE LET old == IF key \in DOMAIN h THEN h[key] ELSE NoHist
             new == [n |-> old.n + 1, act |-> act, base |-> base_action(prob)]
         IN  [k \in DOMAIN h \cup {key} |-> IF k = key THEN new ELSE h[k]]

\* Escalator.step(key, prob); call keeps, with the result, what the history
\* of key was before the step
Step(key, prob) ==
    /\ base_action(prob) = "pass" \/ memory_get(memory, key) < MaxCount
    /\ LET act == step_action(memory, key, prob)
           old == IF key \in DOMAIN hist THEN hist[key] ELSE NoHist
       IN  /\ call' = [key |-> key, prob |-> prob, act |-> act,
                       c |-> IF key \in DOMAIN hist THEN old.n ELSE -1,
                       prevAct |-> old.act, prevBase |-> old.base]
           /\ hist' = hist_after(hist, key, prob, act)
    /\ memory' = step_memory(memory, key, prob)
    /\ UNCHANGED <<lateVars, res, reported, streak, mergeIn, mergeOut, normIn, normOut,
                   anIn, anOut, demoMemory, pc>>

InitEscalator ==
    /\ EscalatorIdle /\ PipelineIdle /\ MergeIdle /\ NormalizerIdle
    /\ AnalyzeIdle /\ DemoIdle /\ LateIdle
    /\ pc = "run"

NextEscalator == \E key \in Keys, prob \in StepProbs : Step(key, prob)

SpecEscalator == InitEscalator /\ [][NextEscalator]_vars

(***************************************************************************)
(* Escalator claims, under SpecEscalator                                   *)
(***************************************************************************)
\* C1 (as stated) For a fixed key, with no pass in between, the action a step
\* returns is never of a lower tier than the action the previous step on
\* that key returned: consecutive non-passing steps are non-decreasing.
C1_MonotoneAsStated ==
    (call.c >= 1 /\ call.act # "pass") => Tier(call.act) >= Tier(call.prevAct)

\* C1 (amended) For a fixed key, with no pass in between, a step whose
\* probability is in the same or a higher band than the previous step's
\* returns an action of the same or a higher tier than the previous one; and
\* whatever its probability, a step that follows c non-passing steps returns
\* at least ladder[min(c, 2)].
C1_MonotoneWithinBand ==
    (call.c >= 1 /\ call.act # "pass") =>
        /\ Tier(base_action(call.prob)) >= Tier(call.prevBase)
                => Tier(call.act) >= Tier(call.prevAct)
        /\ Tier(call.act) >= Tier(ladder[Min(call.c, 2)])

\* a third step at the suggest threshold returned enforce after warn
C1_Witness ==
    /\ call.prob = th_suggest /\ call.c = 2
    /\ call.prevAct = "warn" /\ call.act = "enforce"

\* C3 A step whose probability is below the suggest threshold returns pass
\* and removes its key from the map; the first non-passing step of a key
\* without history, also after such a removal, returns base_action(prob) and
\* stores 1.
C3_ResetOnPass ==
    /\ (call.act # "none" /\ call.prob < th_suggest)
            => (call.act = "pass" /\ call.key \notin DOMAIN memory)
    /\ (call.act \notin {"none", "pass"} /\ call.c <= 0)
            => /\ call.act = base_action(call.prob)
               /\ call.key \in DOMAIN memory /\ memory[call.key] = 1

\* a key whose counter a pass removed has made its next non-passing step
C3_Witness ==
    /\ call.c = 0 /\ call.act = "suggest"
    /\ call.key \in DOMAIN memory /\ memory[call.key] = 1

\* C4 A step on one key leaves the entry of every other key as it was:
\* present or absent, and with the same counter.
C4_KeyIndependence ==
    [][\A k \in Keys :
            k # call'.key =>
                /\ (k \in DOMAIN memory') = (k \in DOMAIN memory)
                /\ k \in DOMAIN memory => memory'[k] = memory[k]]_vars

\* a pass has removed the counter of one key while another key holds a
\* counter of 2
C4_Witness ==
    \E k \in DOMAIN memory :
        call.key # k /\ call.act = "pass" /\ call.c >= 1 /\ memory[k] = 2

\* C5 step returns pass below the suggest threshold; otherwise, with c the
\* number of non-passing steps the key had since its last pass and b the
\* band of the probability (0 from 0.50, 1 from 0.70, 2 from 0.90, bounds
\* included), it returns ladder[max(b, min(c, 2))] and stores c + 1.
C5_StepFormula ==
    call.act # "none" =>
        LET k == call.key
            p == call.prob
            c == Max(call.c, 0)
            b == IF p >= 900 THEN 2 ELSE IF p >= 700 THEN 1 ELSE 0
        IN  IF p < 500 THEN call.act = "pass"
            ELSE /\ call.act = ladder[Max(b, Min(c, 2))]
                 /\ k \in DOMAIN memory /\ memory[k] = c + 1

\* a step exactly at the warn threshold, after three earlier offences
C5_Witness ==
    /\ call.prob = th_warn /\ call.c = 3 /\ call.act = "enforce"
    /\ call.key \in DOMAIN memory /\ memory[call.key] = 4

(***************************************************************************)
(* The pipeline: one TextSanitizer, called by the hook's _process_line, by *)
(* dataset_eval.run                                                        *)
(***************************************************************************)
\* the texts typed or read, in the order the bound NumTexts takes them:
\* "u sex", "   ass", "ass", "ok", "a-s-s", "ASS"
Corpus ==
    << <<"u", " ", "s", "e", "x">>,
       <<" ", " ", " ", "a", "s", "s">>,
       <<"a", "s", "s">>,
       <<"o", "k">>,
       <<"a", "-", "s", "-", "s">>,
       <<"A", "S", "S">> >>
NumTexts == 3
Texts == {Corpus[i] : i \in 1..Min(NumTexts, Len(Corpus))}

\* the probabilities of the first scoring: just below and at the thresholds
\* 0.50 and 0.985, and at 0.90
FirstProbs == {th_suggest - 1, th_suggest, th_enforce, 984, 985}
\* the probabilities of a re-scoring of a masked text: drops of the first
\* probability at or above the margin, and below it
MaskedProbs == {800, 900}

\* the texts one analyze call hands to the classifier when the first
\* probability is prob
ScoredTexts(text, prob) ==
    LET pre == preprocess(text)
        wins == ScoredWindows(text)
    IN  IF ml_fallback_gate(LexicalSpans(pre), prob)
        THEN {pre} \cup {wins[k].masked_pre : k \in 1..Len(wins)}
        ELSE {pre}

\* the classifier as one analyze call of text can see it
ClassifierRuns(text) ==
    LET pre == preprocess(text)
    IN  UNION {
            {[m \in ScoredTexts(text, p) |-> IF m = pre THEN p ELSE f[m]] :
                f \in [ScoredTexts(text, p) \ {pre} -> MaskedProbs]} :
            p \in FirstProbs}

\* what analyze computes before it calls the Escalator, for every text and
\* every classifier
Analyses ==
    UNION {{analyze_spans(text, clf) : clf \in ClassifierRuns(text)} : text \in Texts}

\* the calls of a key since its last pass, -1 once one was above the
\* suggest band
streak_after(s, key, prob) ==
    IF base_action(prob) = "pass" THEN [k \in DOMAIN s \ {key} |-> s[k]]
    ELSE LET n == IF base_action(prob) # "suggest" THEN -1
                  ELSE IF key \notin DOMAIN s THEN 1
                  ELSE IF s[key] = -1 THEN -1
                  ELSE s[key] + 1
         IN  [k \in DOMAIN s \cup {key} |-> IF k = key THEN n ELSE s[k]]

\* the part of the result record the state keeps
ResultOf(r) ==
    [raw |-> r.raw, pre |-> r.pre, spans |-> r.spans, ml_prob |-> r.ml_prob,
     action |-> r.action, sanitized |-> r.sanitized]

\* the state after one call san.analyze(text) by the caller "by", which has
\* the result record r and reports rep
AnalyzeCall(r, by, rep) ==
    /\ r.action = "pass" \/ memory_get(memory, r.pre) < MaxCount
    /\ memory' = r.memory
    /\ res' = ResultOf(r)
    /\ reported' = [by |-> by, action |-> rep.action, text |-> rep.text]
    /\ streak' = streak_after(streak, r.pre, r.ml_prob)
    /\ UNCHANGED <<lateVars, call, hist, mergeIn, mergeOut, normIn, normOut, anIn, anOut,
                   demoMemory, pc>>

\* keyboard_hook._process_line(san, line); a is what its analyze call
\* computes before it reaches the Escalator
ProcessLine(a) ==
    LET r == analyze_step(memory, a)
    IN  AnalyzeCall(r, "hook", _process_line(r))

\* one row of dataset_eval.run
DatasetRow(a) ==
    LET r == analyze_step(memory, a)
    IN  AnalyzeCall(r, "dataset", dataset_record(r))

Init ==
    /\ EscalatorIdle /\ PipelineIdle /\ MergeIdle /\ NormalizerIdle
    /\ AnalyzeIdle /\ DemoIdle /\ LateIdle
    /\ pc = "run"

Next ==
    \E a \in Analyses :
        \/ ProcessLine(a)
        \/ DatasetRow(a)

Spec == Init /\ [][Next]_vars

(***************************************************************************)
(* Pipeline claims, under Spec                                             *)
(***************************************************************************)
\* C2 Starting from no history for a normalized text, consecutive analyze
\* calls on texts of that normalized form whose probability is in the
\* suggest band return suggest on the 1st call, warn on the 2nd and enforce
\* on the 3rd and on every later one, until a pass.
C2_RepeatLadder ==
    \A k \in DOMAIN streak :
        (res.pre = k /\ streak[k] >= 1) =>
            /\ streak[k] = 1 => res.action = "suggest"
            /\ streak[k] = 2 => res.action = "warn"
            /\ streak[k] >= 3 => res.action = "enforce"

\* the 4th call in a row in the suggest band, on a text that differs from
\* its normalized form
C2_Witness ==
    /\ res.pre \in DOMAIN streak /\ streak[res.pre] = 4
    /\ res.raw # res.pre /\ res.ml_prob = th_suggest /\ res.action = "enforce"

\* C6 (as stated) Whenever analyze yields enforce but finds no span, or the
\* redaction policy leaves the trimmed text as it was, the action reported is
\* warn and the text is handed back unmodified, by _process_line and in the
\* records dataset_eval.run writes alike.
C6_DowngradeEverywhere ==
    (/\ reported.by \in {"hook", "dataset"}
     /\ res.action = "enforce"
     /\ \/ res.spans = << >>
        \/ Strip(_apply_policy(res.raw, res.spans)) = Strip(res.raw))
        => (reported.action = "warn" /\ reported.text = res.raw)

\* C7 In _process_line, when analyze yields enforce, the span list is not
\* empty and every span's kind is "ml": below 0.985 the action reported is
\* warn and the text returned is the input line; from 0.985 on the action
\* stays enforce and the text returned is the redacted line.
C7_ModelOnlyDowngrade ==
    (/\ reported.by = "hook"
     /\ res.action = "enforce"
     /\ res.spans # << >>
     /\ \A k \in 1..Len(res.spans) : res.spans[k].kind = "ml")
        => IF res.ml_prob < 985
           THEN reported.action = "warn" /\ reported.text = res.raw
           ELSE /\ reported.action = "enforce"
                /\ reported.text = _apply_policy(res.raw, res.spans)

\* _process_line has downgraded an enforce that rests on "ml" spans alone,
\* at a probability just below 0.985
C7_Witness ==
    /\ reported.by = "hook" /\ res.action = "enforce" /\ res.ml_prob = 984
    /\ res.spans # << >>
    /\ \A k \in 1..Len(res.spans) : res.spans[k].kind = "ml"
    /\ reported.action = "warn" /\ reported.text = res.raw

(***************************************************************************)
(* The two span mergers on their own: any list of spans with start <= end  *)
(***************************************************************************)
MaxSpans == 3
MaxPos == 3
\* a lexical kind and the model kind
MergeKinds == {"exact", "ml"}
SpanInputs ==
    {Span(st, ed, kind) : st \in 0..MaxPos, ed \in 0..MaxPos, kind \in MergeKinds}

\* text_sanitizer._merge_spans(mergeIn) and keyboard_hook._merge_spans(mergeIn)
Merge ==
    /\ pc = "input"
    /\ mergeOut' = [san |-> _merge_spans(mergeIn), hook |-> hook_merge_spans(mergeIn)]
    /\ pc' = "done"
    /\ UNCHANGED <<lateVars, memory, call, hist, res, reported, streak, mergeIn,
                   normIn, normOut, anIn, anOut, demoMemory>>

InitMerge ==
    /\ EscalatorIdle /\ PipelineIdle /\ NormalizerIdle /\ AnalyzeIdle /\ DemoIdle /\ LateIdle
    /\ mergeIn \in UNION {[1..n -> {sp \in SpanInputs : sp.st <= sp.ed}] : n \in 0..MaxSpans}
    /\ mergeOut = [san |-> << >>, hook |-> << >>]
    /\ pc = "input"

NextMerge == Merge

SpecMerge == InitMerge /\ [][NextMerge]_vars

\* the offsets a list of spans covers
Covered(spans) == UNION {spans[k].st .. (spans[k].ed - 1) : k \in 1..Len(spans)}

\* sorted by start, and every span starts after the end of the one before
Separated(spans) == \A k \in 2..Len(spans) : spans[k].st > spans[k - 1].ed

\* C8 For any list of spans with start <= end, each of the two mergers
\* returns spans that cover exactly the union of the input intervals, are
\* sorted by start, and of which each starts after the end of the one before
\* it.
C8_MergeCorrect ==
    pc = "done" =>
        /\ Covered(mergeOut.san) = Covered(mergeIn)
        /\ Separated(mergeOut.san)
        /\ Covered(mergeOut.hook) = Covered(mergeIn)
        /\ Separated(mergeOut.hook)

\* three spans given out of order, the first inside the fused second and
\* third, have become one span
C8_Witness ==
    /\ pc = "done"
    /\ mergeIn = <<Span(1, 2, "exact"), Span(2, 3, "exact"), Span(0, 2, "exact")>>
    /\ mergeOut.san = <<Span(0, 3, "exact")>>
    /\ mergeOut.hook = <<Span(0, 3, "exact")>>

\* C9 (as stated) When a merger fuses a span A with an overlapping or
\* touching span B that follows it in the sort order, the kind of the result
\* is A's kind unless that is "ml", and then it is B's; for the merger of
\* text_sanitizer and for the one of the hook.
C9_TieBreakBoth ==
    (/\ pc = "done" /\ Len(mergeIn) = 2
     /\ SortSpans(mergeIn)[2].st <= SortSpans(mergeIn)[1].ed)
        => LET A == SortSpans(mergeIn)[1]
               B == SortSpans(mergeIn)[2]
               kind == IF A.kind # "ml" THEN A.kind ELSE B.kind
           IN  /\ Len(mergeOut.san) = 1 /\ mergeOut.san[1].kind = kind
               /\ Len(mergeOut.hook) = 1 /\ mergeOut.hook[1].kind = kind

(***************************************************************************)
(* The normalizer on its own: preprocess applied once and twice            *)
(***************************************************************************)
MaxLen == 4
\* a letter in both cases, a space, a symbol, a control character and a
\* compatibility character
NormChars == {"a", "A", " ", "!", "ZW", "FWa"}

\* preprocess(normIn) and preprocess(preprocess(normIn))
Normalize ==
    /\ pc = "input"
    /\ normOut' = [once |-> preprocess(normIn), twice |-> preprocess(preprocess(normIn))]
    /\ pc' = "done"
    /\ UNCHANGED <<lateVars, memory, call, hist, res, reported, streak, mergeIn,
                   mergeOut, normIn, anIn, anOut, demoMemory>>

InitNormalizer ==
    /\ EscalatorIdle /\ PipelineIdle /\ MergeIdle /\ AnalyzeIdle /\ DemoIdle /\ LateIdle
    /\ normIn \in UNION {[1..n -> NormChars] : n \in 0..MaxLen}
    /\ normOut = [once |-> << >>, twice |-> << >>]
    /\ pc = "input"

NextNormalizer == Normalize

SpecNormalizer == InitNormalizer /\ [][NextNormalizer]_vars

\* C10 (as stated) For every text t, preprocess(preprocess(t)) equals
\* preprocess(t).
C10_Idempotent == pc = "done" => normOut.twice = normOut.once

(***************************************************************************)
(* One analyze call on its own, on a fresh TextSanitizer: its classifier   *)
(* calls, the stages of its ML fallback, and a classifier that fails       *)
(***************************************************************************)
\* what a call of SentenceModel.predict stands for in a classifier when it
\* raises instead of returning a probability
PredictRaises == -1

\* the texts one analyze call hands to self.model.predict, in order, when
\* no call fails
predict_calls(text, clf) ==
    LET pre == preprocess(text)
        wins == ScoredWindows(text)
    IN  <<pre>> \o (IF ml_fallback_gate(LexicalSpans(pre), clf[pre])
                    THEN [k \in 1..Len(wins) |-> wins[k].masked_pre]
                    ELSE << >>)

\* the calls made up to and with the first one that raises
CallsUntilFailure(calls, clf) ==
    LET bad == {k \in 1..Len(calls) : clf[calls[k]] = PredictRaises}
    IN  IF bad = {} THEN calls
        ELSE SubSeq(calls, 1, CHOOSE k \in bad : \A m \in bad : k <= m)

\* whether a predict call of analyze(text) raises, mutant: a failure of a
\* re-scoring is swallowed
analyze_raises_first_only(text, clf) == clf[preprocess(text)] = PredictRaises

\* whether a predict call of analyze(text) raises; analyze has no handler
analyze_raises(text, clf) ==
    LET calls == predict_calls(text, clf)
    IN  \E k \in 1..Len(calls) : clf[calls[k]] = PredictRaises

\* the fallback chain of analyze (lines 270-275) once the first scoring gave
\* prob and the localizer, if the gate let it run, returned loc
trace_fallbacks(text, prob, ranLoc, loc) ==
    LET runSub == ranLoc /\ loc = << >>
        sub == IF runSub THEN _substring_fallback(text) ELSE << >>
        runHeur == runSub /\ sub = << >> /\ prob >= 980
    IN  [ran |-> (IF runSub THEN {"sub"} ELSE {}) \cup (IF runHeur THEN {"heur"} ELSE {}),
         sub |-> sub,
         heur |-> IF runHeur THEN _heuristic_token_pick(text) ELSE << >>]

\* what one call analyze(text) went through: whether it raised, the texts
\* it scored, the exact and fuzzy spans, which of the localizer ("loc"), the
\* substring fallback ("sub") and the heuristic fallback ("heur") ran, and
\* what each returned
trace_record(text, clf, lex, prob, raised, calls) ==
    LET ranLoc == prob # PredictRaises /\ ~raised /\ ml_fallback_gate(lex, prob)
        loc == IF ranLoc THEN _ml_localize_spans(text, prob, clf) ELSE << >>
        fb == trace_fallbacks(text, prob, ranLoc, loc)
    IN  [raised |-> raised,
         calls |-> CallsUntilFailure(calls, clf),
         lex |-> IF prob = PredictRaises THEN << >> ELSE lex,
         ran |-> (IF prob # PredictRaises /\ ml_fallback_gate(lex, prob) THEN {"loc"} ELSE {})
                    \cup fb.ran,
         loc |-> loc, sub |-> fb.sub, heur |-> fb.heur]

analyze_trace(text, clf) ==
    trace_record(text, clf, LexicalSpans(preprocess(text)), clf[preprocess(text)],
                 analyze_raises(text, clf), predict_calls(text, clf))

\* what the caller of analyze gets, mutant: the Escalator is stepped before
\* the scoring is over, with the probability at hand
outcome_record_stepped(mem, raised, r) ==
    IF raised
    THEN [raised |-> TRUE, result |-> NoResult, memory |-> r.memory]
    ELSE [raised |-> FALSE, result |-> ResultOf(r), memory |-> r.memory]

\* what the caller of analyze gets: the exception of the predict call that
\* raised, with the Escalator untouched, or the result r
outcome_record(mem, raised, r) ==
    IF raised
    THEN [raised |-> TRUE, result |-> NoResult, memory |-> mem]
    ELSE [raised |-> FALSE, result |-> ResultOf(r), memory |-> r.memory]

\* one call analyze(text) on a TextSanitizer whose Escalator holds mem and
\* whose model is clf
analyze_outcome(mem, text, clf) ==
    outcome_record(mem, analyze_raises(text, clf), analyze(mem, text, clf))

\* the texts analyzed, in the order the bound NumSamples takes them:
\* "u sex", "ok!", "   ass", "ex ex ex ex", "that", "at! ok"
Samples ==
    << <<"u", " ", "s", "e", "x">>,
       <<"o", "k", "!">>,
       <<" ", " ", " ", "a", "s", "s">>,
       <<"e", "x", " ", "e", "x", " ", "e", "x", " ", "e", "x">>,
       <<"t", "h", "a", "t">>,
       <<"a", "t", "!", " ", "o", "k">> >>
NumSamples == 5
SampleTexts == {Samples[i] : i \in 1..Min(NumSamples, Len(Samples))}

\* the probabilities of the first scoring: just below and at the thresholds
\* 0.90 and 0.98
SampleProbs == {th_enforce - 1, th_enforce, 979, 980}
\* the probabilities of a re-scoring of a masked text: a drop above the
\* margin from every sample probability, and a drop of at most the margin
RescoreProbs == {0, 880}

\* the classifiers that score pre with p and the texts of scored with any
\* probability, and those that fail on one of these texts and score the
\* others alike
ClassifiersOver(pre, p, scored) ==
    {[m \in scored \cup {pre} |-> IF m = pre THEN p ELSE f[m]] :
        f \in [scored -> RescoreProbs]}
    \cup {[m \in scored \cup {pre} |->
                IF m = bad THEN PredictRaises ELSE IF m = pre THEN p ELSE q] :
            q \in RescoreProbs, bad \in scored}

\* for every sample text its normalized form and, for every first
\* probability, the masked texts one analyze call re-scores
SampleScored ==
    [text \in SampleTexts |->
        [pre |-> preprocess(text),
         scored |-> [p \in SampleProbs |-> ScoredTexts(text, p) \ {preprocess(text)}]]]

\* the classifiers one analyze call of text can see: one that fails on the
\* first scoring, and for every first probability those of ClassifiersOver
SampleClassifiers(text) ==
    {[m \in {SampleScored[text].pre} |-> PredictRaises]}
        \cup UNION {ClassifiersOver(SampleScored[text].pre, p, SampleScored[text].scored[p]) :
                        p \in SampleProbs}

AnalyzeInputs ==
    UNION {{[text |-> text, clf |-> clf] : clf \in SampleClassifiers(text)} :
                text \in SampleTexts}

\* the caller's state after the call: the result, and the Escalator's map
AnalyzeReturn(o) ==
    /\ res' = o.result
    /\ memory' = o.memory

\* san.analyze(anIn.text) on a fresh TextSanitizer whose model is anIn.clf
AnalyzeOnce ==
    /\ pc = "input"
    /\ AnalyzeReturn(analyze_outcome(memory, anIn.text, anIn.clf))
    /\ anOut' = analyze_trace(anIn.text, anIn.clf)
    /\ pc' = "done"
    /\ UNCHANGED <<lateVars, call, hist, reported, streak, mergeIn, mergeOut, normIn,
                   normOut, anIn, demoMemory>>

InitAnalyze ==
    /\ EscalatorIdle /\ PipelineIdle /\ MergeIdle /\ NormalizerIdle /\ DemoIdle /\ LateIdle
    /\ anIn \in AnalyzeInputs
    /\ anOut = NoTrace
    /\ pc = "input"

NextAnalyze == AnalyzeOnce

SpecAnalyze == InitAnalyze /\ [][NextAnalyze]_vars

(***************************************************************************)
(* Claims on one analyze call, under SpecAnalyze                           *)
(***************************************************************************)
\* no two spans of the list share an offset
PairwiseDisjoint(spans) ==
    \A i, j \in 1..Len(spans) :
        i < j => (spans[i].ed <= spans[j].st \/ spans[j].ed <= spans[i].st)

\* C11 For any text and any classifier, the spans _ml_localize_spans returns
\* are pairwise non-overlapping half-open intervals and at most 3, and the
\* spans of the analysis result derived from them are pairwise
\* non-overlapping too.
C11_LocalizerNonOverlap ==
    (pc = "done" /\ "loc" \in anOut.ran) =>
        /\ PairwiseDisjoint(anOut.loc)
        /\ Len(anOut.loc) <= 3
        /\ PairwiseDisjoint(res.spans)

\* a window of two words was chosen first, the windows inside it were
\* skipped, and the selection stopped at three of more candidates
C11_Witness ==
    /\ pc = "done" /\ Len(anOut.calls) = 10 /\ Len(anOut.loc) = 3
    /\ \E k \in 1..3 : anOut.loc[k] = Span(0, 5, "ml")
    /\ \A k \in 2..10 : anIn.clf[anOut.calls[k]] \in RescoreProbs
    /\ Cardinality({k \in 2..10 : res.ml_prob - anIn.clf[anOut.calls[k]] > drop_threshold}) >= 6

\* C12 The localizer and its fallbacks run only if the merged exact and
\* fuzzy span list is empty and the probability is at least th_enforce;
\* otherwise analyze calls the classifier exactly once and its result holds
\* no span of a model kind.
C12_LocalizerGating ==
    pc = "done" =>
        LET pre == preprocess(anIn.text)
            lex == LexicalSpans(pre)
            prob == anIn.clf[pre]
        IN  /\ anOut.ran # {} => (lex = << >> /\ prob >= th_enforce)
            /\ (prob # PredictRaises /\ ~(lex = << >> /\ prob >= th_enforce)) =>
                   /\ anOut.calls = <<pre>>
                   /\ res # NoResult
                   /\ \A k \in 1..Len(res.spans) : ~IsMlKind(res.spans[k].kind)

\* a text with a word-list hit scored above th_enforce: one call, the
\* lexical span only
C12_Witness ==
    /\ pc = "done" /\ anOut.lex # << >> /\ anOut.ran = {}
    /\ anIn.clf[preprocess(anIn.text)] = 980
    /\ Len(anOut.calls) = 1
    /\ res # NoResult /\ Len(res.spans) >= 1

\* the tokens of the text whose normalized form contains, is contained in or
\* is within one edit of a lexicon word
MatchingTokens(raw) ==
    LET toks == Tokens(raw)
    IN  {k \in 1..Len(toks) :
            LET norm == _normalize_word(PySlice(raw, toks[k].st, toks[k].ed))
            IN  norm # << >> /\ NearToxic(norm)}

\* C13 When the substring fallback runs it returns exactly one span, the
\* first token (left to right) that matches a lexicon word, and the analysis
\* result carries that span tagged as a substring span; it returns no span
\* if no token matches.
C13_SubstringFirstMatch ==
    (pc = "done" /\ "sub" \in anOut.ran) =>
        LET toks == Tokens(anIn.text)
            hits == MatchingTokens(anIn.text)
        IN  IF hits = {} THEN anOut.sub = << >>
            ELSE LET first == CHOOSE k \in hits : \A m \in hits : k <= m
                 IN  /\ Len(anOut.sub) = 1
                     /\ anOut.sub[1].st = toks[first].st
                     /\ anOut.sub[1].ed = toks[first].ed
                     /\ Len(res.spans) = 1
                     /\ res.spans[1].st = toks[first].st
                     /\ res.spans[1].ed = toks[first].ed
                     /\ res.spans[1].kind \in {"ml-substring", "ml-substr"}

\* the first token of the highest heuristic score among all tokens
BestOfAllTokens(raw) ==
    LET toks == Tokens(raw)
        tok(k) == PySlice(raw, toks[k].st, toks[k].ed)
    IN  CHOOSE k \in 1..Len(toks) :
            \A m \in 1..Len(toks) :
                \/ HeuristicScore(tok(k)) > HeuristicScore(tok(m))
                \/ (HeuristicScore(tok(k)) = HeuristicScore(tok(m)) /\ k <= m)

\* C14 The heuristic fallback runs only when the localizer and the substring
\* fallback produced no span and the probability is at least 0.98; it then
\* yields a single span on the first token of the highest score among all
\* tokens (one point for a normalized length of 4 or more, two for a
\* non-alphanumeric character), tagged as a heuristic span in the result.
C14_HeuristicPick ==
    (pc = "done" /\ "heur" \in anOut.ran) =>
        /\ anOut.loc = << >> /\ anOut.sub = << >>
        /\ anIn.clf[preprocess(anIn.text)] >= 980
        /\ Tokens(anIn.text) # << >> =>
               LET t == Tokens(anIn.text)[BestOfAllTokens(anIn.text)]
               IN  /\ anOut.heur = <<Span(t.st, t.ed, "ml-heuristic")>>
                   /\ res.spans = <<Span(t.st, t.ed, "ml-heuristic")>>

\* C15 One analyze call on a text of W whitespace-separated tokens makes the
\* initial classifier call and at most 3 * W further ones, and no further
\* one when no token of the text (hence no window) is suspicious.
C15_CallBudget ==
    pc = "done" =>
        LET toks == Tokens(anIn.text)
        IN  /\ Len(anOut.calls) >= 1
            /\ Len(anOut.calls) - 1 <= 3 * Len(toks)
            /\ (\A k \in 1..Len(toks) :
                    ~_token_is_suspicious(PySlice(anIn.text, toks[k].st, toks[k].ed)))
                   => Len(anOut.calls) = 1

\* four suspicious tokens above th_enforce: nine windows are re-scored
C15_Witness ==
    /\ pc = "done" /\ ~anOut.raised
    /\ Len(Tokens(anIn.text)) = 4
    /\ Len(anOut.calls) = 10
    /\ "loc" \in anOut.ran

\* C16 The spans of an analysis result are sorted by start, do not overlap,
\* and each satisfies 0 <= start <= end <= length of the text it was computed
\* on: the normalized text for exact and fuzzy spans, the raw text for spans
\* of a model kind.
C16_ResultSpans ==
    (pc = "done" /\ res # NoResult) =>
        LET raw == anIn.text
            pre == preprocess(anIn.text)
        IN  /\ \A k \in 1..Len(res.spans) :
                   LET sp == res.spans[k]
                   IN  /\ 0 <= sp.st /\ sp.st <= sp.ed
                       /\ sp.ed <= (IF IsMlKind(sp.kind) THEN Len(raw) ELSE Len(pre))
            /\ \A k \in 1..(Len(res.spans) - 1) :
                   /\ res.spans[k].st <= res.spans[k + 1].st
                   /\ res.spans[k].ed <= res.spans[k + 1].st

\* a result of two spans, the last one ending at the end of the text
C16_Witness ==
    /\ pc = "done" /\ res # NoResult
    /\ Len(res.spans) >= 2
    /\ res.spans[Len(res.spans)].ed = Len(anIn.text)

(***************************************************************************)
(* Claims on the state of the Escalator, under SpecEscalator               *)
(***************************************************************************)
\* C19 In every reachable state of an Escalator a key is in the history map
\* iff the most recent step for that key was non-passing; each stored
\* counter is at least 1 and equals the number of non-passing steps for the
\* key since its last pass (or since creation); and the map changes only by
\* a step, to what that step leaves.
C19_EscalationState ==
    /\ [](\A k \in Keys :
            /\ k \in DOMAIN memory <=> (k \in DOMAIN hist /\ hist[k].n >= 1)
            /\ k \in DOMAIN memory => (memory[k] >= 1 /\ memory[k] = hist[k].n))
    /\ [][memory' # memory =>
            /\ memory' = step_memory(memory, call'.key, call'.prob)
            /\ \A k \in Keys \ {call'.key} :
                   /\ k \in DOMAIN memory' <=> k \in DOMAIN memory
                   /\ k \in DOMAIN memory => memory'[k] = memory[k]]_vars

\* one key counted three non-passing steps while another was popped by a pass
C19_Witness ==
    \E k, m \in Keys :
        /\ k \in DOMAIN memory /\ memory[k] = 3
        /\ m \notin DOMAIN memory /\ m \in DOMAIN hist
        /\ call.key = m /\ base_action(call.prob) = "pass" /\ call.c >= 1

(***************************************************************************)
(* Claims on the offsets and failures of one analyze call, under           *)
(* SpecAnalyze                                                             *)
(***************************************************************************)
\* C17 In every analyze call the span offsets redact the text they were
\* computed against: whenever normalization changes the text, the characters
\* masked in the sanitized output are exactly the raw characters the matcher
\* matched, i.e. each exact or fuzzy span cut out of the raw text normalizes
\* to the matched stretch of the normalized text.
C17_SingleSnapshot ==
    (pc = "done" /\ res # NoResult) =>
        LET raw == anIn.text
            pre == preprocess(anIn.text)
        IN  \A k \in 1..Len(res.spans) :
                LET sp == res.spans[k]
                IN  ~IsMlKind(sp.kind) =>
                        /\ res.sanitized = _mask(raw, res.spans)
                        /\ preprocess(PySlice(raw, sp.st, sp.ed)) = PySlice(pre, sp.st, sp.ed)

\* C20 If the classifier fails on the initial scoring or on any localizer
\* re-scoring, analyze returns no result (no action, spans or sanitized
\* text), the Escalator is not stepped, and the failure reaches the caller
\* at the failing call; it is never turned into a pass or a probability 0.
C20_ClassifierFailureFatal ==
    (pc = "done" /\ \E m \in DOMAIN anIn.clf : anIn.clf[m] = PredictRaises) =>
        /\ anOut.raised
        /\ res = NoResult
        /\ memory = << >>
        /\ anIn.clf[anOut.calls[Len(anOut.calls)]] = PredictRaises
        /\ \A k \in 1..(Len(anOut.calls) - 1) : anIn.clf[anOut.calls[k]] # PredictRaises

\* the initial scoring succeeded above th_enforce and a re-scoring of a
\* masked text failed
C20_Witness ==
    /\ pc = "done" /\ anOut.raised
    /\ Len(anOut.calls) >= 2
    /\ anIn.clf[anOut.calls[1]] >= th_enforce
    /\ res = NoResult

(***************************************************************************)
(* The suggestions demo: demo_sanitize_with_suggestions.main creates a     *)
(* TextSanitizer (with its own Escalator, memory) and a second Escalator   *)
(* (demoMemory), and run_list / run_dataset take the texts one by one      *)
(***************************************************************************)
\* the texts of a demo run, in the order the bound NumDemoTexts takes them:
\* "   ass", "ass", "ASS", "a-s-s"
DemoCorpus ==
    << <<" ", " ", " ", "a", "s", "s">>,
       <<"a", "s", "s">>,
       <<"A", "S", "S">>,
       <<"a", "-", "s", "-", "s">> >>
NumDemoTexts == 2
DemoTexts == {DemoCorpus[i] : i \in 1..Min(NumDemoTexts, Len(DemoCorpus))}

\* what san.analyze(t) computes before it calls its Escalator, for every
\* text of the demo and every classifier
DemoAnalyses ==
    UNION {{analyze_spans(text, clf) : clf \in ClassifierRuns(text)} : text \in DemoTexts}

\* the fields input and result.action of the record of one text:
\* res = san.analyze(t); action = esc.step(t, prob)
demo_record(mem, a) ==
    [action |-> step_action(mem, a.raw, a.ml_prob), text |-> a.raw]

\* one iteration of the loop of run_list or of run_dataset
DemoRow(a, by) ==
    /\ pc = "demo"
    /\ \/ base_action(a.ml_prob) = "pass"
       \/ /\ memory_get(memory, a.pre) < MaxCount
          /\ memory_get(demoMemory, a.raw) < MaxCount
    /\ LET r == analyze_step(memory, a)
           rec == demo_record(demoMemory, a)
       IN  /\ memory' = r.memory
           /\ res' = ResultOf(r)
           /\ reported' = [by |-> by, action |-> rec.action, text |-> rec.text]
    /\ demoMemory' = step_memory(demoMemory, a.raw, a.ml_prob)
    /\ streak' = streak_after(streak, a.pre, a.ml_prob)
    /\ UNCHANGED <<lateVars, call, hist, mergeIn, mergeOut, normIn, normOut, anIn, anOut, pc>>

InitDemo ==
    /\ EscalatorIdle /\ PipelineIdle /\ MergeIdle /\ NormalizerIdle
    /\ AnalyzeIdle /\ DemoIdle /\ LateIdle
    /\ pc = "demo"

NextDemo ==
    \E a \in DemoAnalyses :
        \/ DemoRow(a, "run_list")
        \/ DemoRow(a, "run_dataset")

SpecDemo == InitDemo /\ [][NextDemo]_vars

\* C18 Every escalation step whose action is reported for a text is keyed by
\* the text's normalized form, so raw inputs that normalize to the same
\* string share one counter: after consecutive suggest-band steps on texts
\* of one normalized form, the action analyze returns and the action of the
\* demo's record are suggest on the 1st, warn on the 2nd, enforce from the
\* 3rd on.
C18_KeyIsNormalizedText ==
    (pc = "demo" /\ reported # NoReport) =>
        \A k \in DOMAIN streak :
            (res.pre = k /\ streak[k] >= 1) =>
                LET want == IF streak[k] = 1 THEN "suggest"
                            ELSE IF streak[k] = 2 THEN "warn" ELSE "enforce"
                IN  /\ res.action = want
                    /\ reported.action = want

(***************************************************************************)
(* Construction: the matchers, the Escalator and the TextSanitizer built   *)
(* over wordlist and configuration files that may be absent or unreadable  *)
(***************************************************************************)
\* what a loader gives: the file's content, the built-in default list, the
\* empty list, or the exception open() raised
Raised == "raised"

\* word_match._load_wordlist(path, fallback): only FileNotFoundError is caught
_load_wordlist(st) ==
    CASE st = "present"    -> "file"
      [] st = "empty"      -> "default"
      [] st = "missing"    -> "default"
      [] st = "unreadable" -> Raised

\* fuzzy_match.read_wordlist(path): os.path.exists guards the open
read_wordlist(st) ==
    CASE st = "missing"    -> "empty"
      [] st = "empty"      -> "empty"
      [] st = "present"    -> "file"
      [] st = "unreadable" -> Raised

\* escalation._load_cfg(path): os.path.exists guards the open, and an empty
\* document is {}
_load_cfg(st) ==
    CASE st = "missing"    -> "default"
      [] st = "empty"      -> "default"
      [] st = "present"    -> "file"
      [] st = "unreadable" -> Raised

\* sentence_model._find_config(path): raises FileNotFoundError when none of
\* the places it looks in has a config.yaml
_find_config(st) == IF st = "missing" THEN Raised ELSE "found"

\* sentence_model.load_config_and_base(path): the document, None for an
\* empty file
load_config_and_base(fs) ==
    CASE _find_config(fs["config.yaml"]) = Raised -> Raised
      [] fs["config.yaml"] = "unreadable"         -> Raised
      [] fs["config.yaml"] = "empty"              -> "None"
      [] OTHER                                    -> "file"

\* WordMatcher.__init__(toxic_file, sexual_file), as find_exact calls it
WordMatcher(fs) ==
    IF \/ _load_wordlist(fs["data/toxic.txt"]) = Raised
       \/ _load_wordlist(fs["data/sexual.txt"]) = Raised
    THEN Raised ELSE "ok"

\* the module-level TOXIC_WORDS and SEXUAL_WORDS of fuzzy_match
fuzzy_match(fs) ==
    IF \/ read_wordlist(fs["data/wordlists/toxic.txt"]) = Raised
       \/ read_wordlist(fs["data/wordlists/sexual.txt"]) = Raised
    THEN Raised ELSE "ok"

\* Escalator.from_config(path)
from_config(fs) == IF _load_cfg(fs["config.yaml"]) = Raised THEN Raised ELSE "ok"

\* SentenceModel.__init__: a configuration that was read names the model
\* and its files; `"models" not in None` raises TypeError
SentenceModel(fs) ==
    IF load_config_and_base(fs) = "file" THEN "ok" ELSE Raised

\* TextSanitizer.__init__: the model first, then the Escalator
TextSanitizer(fs) ==
    IF SentenceModel(fs) = Raised THEN Raised ELSE from_config(fs)

Construct(c, result) ==
    /\ built[c] = "none"
    /\ built' = [built EXCEPT ![c] = result]
    /\ UNCHANGED <<coreVars, pc, files, renderVars, threadVars, locVars, hookVars>>

NewWordMatcher == Construct("WordMatcher", WordMatcher(files))
ImportFuzzyMatch == Construct("fuzzy_match", fuzzy_match(files))
EscalatorFromConfig == Construct("Escalator", from_config(files))
NewTextSanitizer == Construct("TextSanitizer", TextSanitizer(files))

InitConstruct ==
    /\ EscalatorIdle /\ PipelineIdle /\ MergeIdle /\ NormalizerIdle
    /\ AnalyzeIdle /\ DemoIdle /\ RenderIdle /\ ThreadsIdle /\ LocalizeIdle
    /\ HookIdle
    /\ pc = "construct"
    /\ files \in [FileNames -> FileStates]
    /\ built = NotBuilt

NextConstruct ==
    \/ NewWordMatcher
    \/ ImportFuzzyMatch
    \/ EscalatorFromConfig
    \/ NewTextSanitizer

SpecConstruct == InitConstruct /\ [][NextConstruct]_vars

\* C21 A missing or unreadable wordlist or configuration file never aborts:
\* whatever files are missing or unreadable, constructing the matchers, the
\* Escalator and the TextSanitizer completes without raising.
C21_FailOpen ==
    (pc = "construct" /\ \A f \in FileNames : files[f] # "empty") =>
        \A c \in Constructors : built[c] # Raised

(***************************************************************************)
(* The renderers on their own: any text and any span list with start <=    *)
(* end, offsets below 0 and beyond the end of the text included            *)
(***************************************************************************)
RenderLen == 3
MaxOver == 1
MaxRenderSpans == 2
\* texts of distinct characters, so that a position is known by its character
RenderLetters == <<"a", "e", "f", "h", "k", "o", "s", "t">>
RenderTexts == {SubSeq(RenderLetters, 1, n) : n \in 0..RenderLen}
RenderSpans ==
    {Span(st, ed, "exact") : st \in (0 - MaxOver)..(RenderLen + MaxOver),
                             ed \in (0 - MaxOver)..(RenderLen + MaxOver)}

\* keyboard_hook._mask_by_spans, keyboard_hook._erase_by_spans and
\* TextSanitizer._mask over renderIn
Render ==
    /\ pc = "render"
    /\ renderOut' = [mask |-> _mask_by_spans(renderIn.raw, renderIn.spans),
                     erase |-> _erase_by_spans(renderIn.raw, renderIn.spans),
                     san |-> _mask(renderIn.raw, renderIn.spans)]
    /\ pc' = "rendered"
    /\ UNCHANGED <<coreVars, constructVars, renderIn, threadVars, locVars, hookVars>>

InitRender ==
    /\ EscalatorIdle /\ PipelineIdle /\ MergeIdle /\ NormalizerIdle
    /\ AnalyzeIdle /\ DemoIdle /\ ConstructIdle /\ ThreadsIdle /\ LocalizeIdle
    /\ HookIdle
    /\ \E raw \in RenderTexts :
       \E spans \in UNION {[1..n -> {sp \in RenderSpans : sp.st <= sp.ed}] :
                              n \in 0..MaxRenderSpans} :
           renderIn = [raw |-> raw, spans |-> spans]
    /\ renderOut = NoRender
    /\ pc = "render"

NextRender == Render

SpecRender == InitRender /\ [][NextRender]_vars

\* an offset brought into 0..n
Clamp(x, n) == IF x < 0 THEN 0 ELSE IF x > n THEN n ELSE x

\* the positions (from 1) of raw inside the union of the clamped spans
ClampedUnion(raw, spans) ==
    {i \in 1..Len(raw) :
        \E k \in 1..Len(spans) :
            /\ Clamp(spans[k].st, Len(raw)) < i
            /\ i <= Clamp(spans[k].ed, Len(raw))}

\* raw without the positions of U, the rest in order
RECURSIVE Without(_, _, _)
Without(raw, U, i) ==
    IF i > Len(raw) THEN << >>
    ELSE (IF i \in U THEN << >> ELSE <<raw[i]>>) \o Without(raw, U, i + 1)

\* C22 For any text and span list, offsets below 0 or beyond the end of the
\* text included, the mask and erase renderers affect exactly the positions
\* in the union of the spans clamped to [0, len]: mask replaces each of them
\* by the mask character and leaves the length unchanged, erase removes
\* them, and every other character is preserved in order.
C22_RenderClamped ==
    pc = "rendered" =>
        LET U == ClampedUnion(renderIn.raw, renderIn.spans)
            masked == [i \in 1..Len(renderIn.raw) |->
                          IF i \in U THEN "*" ELSE renderIn.raw[i]]
        IN  /\ renderOut.mask = masked
            /\ renderOut.san = masked
            /\ renderOut.erase = Without(renderIn.raw, U, 1)

(***************************************************************************)
(* Threads of the hook program: who calls Escalator.step on which instance *)
(***************************************************************************)
\* the thread that runs on_press: pynput calls it on its listener thread;
\* mutant: callbacks are handed to two threads
CallbackThread_pool(key) == IF key = 1 THEN "listener" ELSE "worker"
CallbackThread(key) == "listener"

\* the thread that runs run_cli
CliThread == IF program = "cli" THEN "cli" ELSE "runner"

StepProbsHook == {th_suggest - 1, th_suggest}

begun_get(i, key) ==
    IF key \in DOMAIN stepLog[i].begun THEN stepLog[i].begun[key] ELSE 0

\* Escalator.step of instance i on thread t, up to and including the read of
\* the counter: a pass pops the key and returns
StepBegin(t, i, key, prob) ==
    /\ threadAt[t].at = "idle"
    /\ base_action(prob) = "pass" \/ begun_get(i, key) < MaxCount
    /\ IF base_action(prob) = "pass"
       THEN /\ instMemory' = [instMemory EXCEPT
                                 ![i] = step_memory(instMemory[i], key, prob)]
            /\ stepLog' = [stepLog EXCEPT
                  ![i] = [users |-> @.users \cup {t},
                          begun |-> [k \in DOMAIN @.begun \ {key} |-> @.begun[k]]]]
            /\ UNCHANGED threadAt
       ELSE /\ threadAt' = [threadAt EXCEPT
                  ![t] = [at |-> "read", inst |-> i, key |-> key,
                          c |-> memory_get(instMemory[i], key)]]
            /\ stepLog' = [stepLog EXCEPT
                  ![i] = [users |-> @.users \cup {t},
                          begun |-> [k \in DOMAIN @.begun \cup {key} |->
                                        IF k = key THEN begun_get(i, key) + 1
                                        ELSE @.begun[k]]]]
            /\ UNCHANGED instMemory
    /\ UNCHANGED <<coreVars, pc, program, constructVars, renderVars, locVars, hookVars>>

\* on_press handles Enter: _process_line(san, line) with run_hook's instance
HookAnalyze(key, prob) ==
    /\ program = "listener"
    /\ StepBegin(CallbackThread(key), "hook", key, prob)

\* run_cli handles a line with the instance it created
CliAnalyze(key, prob) ==
    /\ program \in {"cli", "fallback"}
    /\ StepBegin(CliThread, "cli", key, prob)

\* self.memory[key] = c + 1
StepWrite(t) ==
    /\ threadAt[t].at = "read"
    /\ instMemory' = [instMemory EXCEPT ![threadAt[t].inst] =
          [k \in DOMAIN @ \cup {threadAt[t].key} |->
              IF k = threadAt[t].key THEN threadAt[t].c + 1 ELSE @[k]]]
    /\ threadAt' = [threadAt EXCEPT ![t] = NotStepping]
    /\ UNCHANGED <<coreVars, pc, program, stepLog, constructVars,
                   renderVars, locVars, hookVars>>

\* listener.start() or listener.join() raises in _run_and_join: the listener
\* thread has ended, and the thread of _run_and_join goes on with run_cli()
ListenerFails ==
    /\ program = "listener"
    /\ threadAt["listener"].at = "idle"
    /\ program' = "fallback"
    /\ UNCHANGED <<coreVars, pc, instMemory, threadAt, stepLog,
                   constructVars, renderVars, locVars, hookVars>>

\* run_hook after san = TextSanitizer(): pynput was imported or was not
InitThreads ==
    /\ EscalatorIdle /\ PipelineIdle /\ MergeIdle /\ NormalizerIdle
    /\ AnalyzeIdle /\ DemoIdle /\ ConstructIdle /\ RenderIdle /\ LocalizeIdle
    /\ HookIdle
    /\ pc = "hook"
    /\ program \in {"listener", "cli"}
    /\ instMemory = [i \in Instances |-> << >>]
    /\ threadAt = [t \in Threads |-> NotStepping]
    /\ stepLog = [i \in Instances |-> [users |-> {}, begun |-> << >>]]

NextThreads ==
    \/ \E key \in Keys, prob \in StepProbsHook : HookAnalyze(key, prob)
    \/ \E key \in Keys, prob \in StepProbsHook : CliAnalyze(key, prob)
    \/ \E t \in Threads : StepWrite(t)
    \/ ListenerFails

SpecThreads == InitThreads /\ [][NextThreads]_vars

\* the threads inside a step of instance i on key
Stepping(i, key) ==
    {t \in Threads : threadAt[t].at = "read" /\ threadAt[t].inst = i
                     /\ threadAt[t].key = key}

\* C23 In the hook/CLI program no two step operations on the same Escalator
\* instance interleave: every instance is stepped by one thread only, at
\* most one thread is inside a step of it, and no increment is lost (the
\* counter of a key, with the step in progress counted, is the number of
\* non-passing steps begun on it since its last pass).
C23_SerializedSteps ==
    pc = "hook" =>
        \A i \in Instances :
            /\ Cardinality(stepLog[i].users) <= 1
            /\ Cardinality({t \in Threads : threadAt[t].at = "read"
                                            /\ threadAt[t].inst = i}) <= 1
            /\ \A key \in Keys :
                  memory_get(instMemory[i], key) + Cardinality(Stepping(i, key))
                      = begun_get(i, key)

\* the listener served lines, failed, and the CLI fallback served lines too
C23_Witness ==
    /\ program = "fallback"
    /\ \E key \in Keys : memory_get(instMemory["hook"], key) >= 2
    /\ \E key \in Keys : memory_get(instMemory["cli"], key) >= 2

(***************************************************************************)
(* The mergers and the order of their input                                *)
(***************************************************************************)
\* the lists that hold the spans of s in any order
Reorderings(s) ==
    {[i \in 1..Len(s) |-> s[f[i]]] :
        f \in {g \in [1..Len(s) -> 1..Len(s)] :
                  \A i, j \in 1..Len(s) : g[i] = g[j] => i = j}}

\* C24 What a merger returns (the bounds and the kind of every merged span)
\* is a function of the set of input spans only: every reordering of the
\* input list gives the same bounds and the same kinds, for the merger of
\* text_sanitizer and for the one of the hook.
C24_OrderIndependent ==
    pc = "done" =>
        \A q \in Reorderings(mergeIn) :
            /\ _merge_spans(q) = mergeOut.san
            /\ hook_merge_spans(q) = mergeOut.hook

(***************************************************************************)
(* The hook's report and the provenance of the spans, under Spec           *)
(***************************************************************************)
\* C25 _process_line never reports enforce together with a rewritten text
\* when the probability is below 0.985 and none of the spans comes from the
\* exact or the fuzzy matcher, whichever of the model-derived kinds ("ml",
\* "ml-substr", "ml-substring", "ml-heuristic") the spans carry.
C25_NoEnforceWithoutLexical ==
    (/\ reported.by = "hook"
     /\ res.ml_prob < 985
     /\ \A k \in 1..Len(res.spans) : IsMlKind(res.spans[k].kind))
        => ~(reported.action = "enforce" /\ reported.text # res.raw)

(***************************************************************************)
(* The localizer on its own: _ml_localize_spans for any scores of the      *)
(* masked windows                                                          *)
(***************************************************************************)
\* the texts searched, in the order the bound NumLocTexts takes them:
\* "sex sex sex", "sex u sex", "sex"
LocCorpus ==
    << <<"s", "e", "x", " ", "s", "e", "x", " ", "s", "e", "x">>,
       <<"s", "e", "x", " ", "u", " ", "s", "e", "x">>,
       <<"s", "e", "x">> >>
NumLocTexts == 2
LocTexts == {LocCorpus[i] : i \in 1..Min(NumLocTexts, Len(LocCorpus))}

\* base_prob: the probabilities from which analyze starts the search
LocProbs == {th_enforce, 980}
\* the probabilities of a masked text: drops of 0.90 and 0.40 from 0.90, of
\* 0.98 and 0.48 from 0.98, and drops of 0.02 and of the margin itself
LocRescoreProbs == {0, 500, 880}

\* the texts the search scores for raw
WindowTexts(raw) ==
    LET wins == ScoredWindows(raw)
    IN  {wins[k].masked_pre : k \in 1..Len(wins)}

Localize ==
    /\ pc = "localize"
    /\ locOut' = _ml_localize_spans(locIn.raw, locIn.prob, locIn.clf)
    /\ pc' = "localized"
    /\ UNCHANGED <<coreVars, constructVars, renderVars, threadVars, locIn, hookVars>>

InitLocalize ==
    /\ EscalatorIdle /\ PipelineIdle /\ MergeIdle /\ NormalizerIdle
    /\ AnalyzeIdle /\ DemoIdle /\ ConstructIdle /\ RenderIdle /\ ThreadsIdle
    /\ HookIdle
    /\ \E raw \in LocTexts, prob \in LocProbs :
       \E clf \in [WindowTexts(raw) -> LocRescoreProbs] :
           locIn = [raw |-> raw, prob |-> prob, clf |-> clf]
    /\ locOut = << >>
    /\ pc = "localize"

NextLocalize == Localize

SpecLocalize == InitLocalize /\ [][NextLocalize]_vars

\* the windows a list of spans selects, as indices into wins
SelectedOf(wins, spans) ==
    {k \in 1..Len(wins) :
        \E j \in 1..Len(spans) :
            spans[j].st = wins[k].st /\ spans[j].ed = wins[k].ed}

\* C26 Among the windows whose drop is strictly above 0.10 the localizer
\* selects in descending order of drop: a window of the largest drop is
\* always selected; a kept window is left out only if it overlaps a selected
\* window of greater or equal drop or three windows are selected; and no
\* window with a drop of at most the margin is selected.
C26_GreedySelection ==
    pc = "localized" =>
        LET wins == ScoredWindows(locIn.raw)
            drop(k) == locIn.prob - locIn.clf[wins[k].masked_pre]
            kept == {k \in 1..Len(wins) : drop(k) > drop_threshold}
            sel == SelectedOf(wins, locOut)
            at(j) == CHOOSE k \in 1..Len(wins) :
                        wins[k].st = locOut[j].st /\ wins[k].ed = locOut[j].ed
        IN  /\ sel \subseteq kept
            /\ Cardinality(sel) = Len(locOut)
            /\ \A j \in 1..(Len(locOut) - 1) : drop(at(j)) >= drop(at(j + 1))
            /\ kept # {} => \E k \in sel : \A m \in kept : drop(k) >= drop(m)
            /\ \A k \in kept \ sel :
                  \/ Len(locOut) = 3
                  \/ \E m \in sel :
                        /\ drop(m) >= drop(k)
                        /\ ~(wins[k].ed <= wins[m].st \/ wins[k].st >= wins[m].ed)

\* of "sex u sex": the last word was selected first with a drop of 0.90, the
\* first word second with a drop of 0.40, the window of the last two words,
\* which dropped by 0.90 as well but was scanned later, was left out for
\* overlapping, and the window of the first two words, which dropped by
\* 0.02, was not kept
C26_Witness ==
    /\ pc = "localized"
    /\ locIn.raw = LocCorpus[2] /\ locIn.prob = th_enforce
    /\ locOut = <<Span(6, 9, "ml"), Span(0, 3, "ml")>>
    /\ locIn.clf[<<"s", "e", "x", " ", "u", " ", "t", "h", "e">>] = 0
    /\ locIn.clf[<<"t", "h", "e", " ", "u", " ", "s", "e", "x">>] = 500
    /\ locIn.clf[<<"s", "e", "x", " ", "t", "h", "e">>] = 0
    /\ locIn.clf[<<"t", "h", "e", " ", "s", "e", "x">>] = 880

(***************************************************************************)
(* A session: analyze calls one after another on one TextSanitizer, some   *)
(* of them with a classifier that fails                                    *)
(***************************************************************************)
NumSessionTexts == 2
SessionTexts == {Samples[i] : i \in 1..Min(NumSessionTexts, Len(Samples))}
\* the probabilities of the first scoring: just below th_enforce, where the
\* classifier is called once, and at th_enforce, where the search re-scores
SessionProbs == {th_enforce - 1, th_enforce}

SessionInputs ==
    UNION {{[text |-> text, clf |-> clf] :
               clf \in {[m \in {preprocess(text)} |-> PredictRaises]}
                   \cup UNION {ClassifiersOver(preprocess(text), p,
                                   ScoredTexts(text, p) \ {preprocess(text)}) :
                               p \in SessionProbs}} :
           text \in SessionTexts}

\* the next call san.analyze(in.text), the model answering as in.clf
SessionAnalyze(in) ==
    /\ pc = "session"
    /\ memory_get(memory, preprocess(in.text)) < MaxCount
    /\ AnalyzeReturn(analyze_outcome(memory, in.text, in.clf))
    /\ anIn' = in
    /\ anOut' = analyze_trace(in.text, in.clf)
    /\ UNCHANGED <<lateVars, call, hist, reported, streak, mergeIn, mergeOut,
                   normIn, normOut, demoMemory, pc>>

InitSession ==
    /\ EscalatorIdle /\ PipelineIdle /\ MergeIdle /\ NormalizerIdle
    /\ AnalyzeIdle /\ DemoIdle /\ LateIdle
    /\ pc = "session"

NextSession == \E in \in SessionInputs : SessionAnalyze(in)

SpecSession == InitSession /\ [][NextSession]_vars

\* C27 If the classifier fails during an analyze call, on the first scoring
\* or on a re-scoring of the localizer, the Escalator's map after the call
\* equals the map before it: a step is performed only after all scoring
\* succeeded.
C27_FailureKeepsHistory ==
    [][(pc = "session" /\ anOut'.raised) => memory' = memory]_vars

\* a call failed on a re-scoring for a text whose counter had been raised
\* by earlier calls, and the counter is still there
C27_Witness ==
    /\ pc = "session" /\ anOut.raised /\ Len(anOut.calls) >= 2
    /\ memory_get(memory, preprocess(anIn.text)) >= 2
    /\ res = NoResult

(***************************************************************************)
(* The keyboard hook: run_hook's listener callback on_press, the injection *)
(* _enforce_in_active_window it calls, and the user typing in the window   *)
(***************************************************************************)
\* the lines the user types, in the order the bound NumHookLines takes
\* them: "ok ass", "u sex", "ok"
HookCorpus ==
    << <<"o", "k", " ", "a", "s", "s">>,
       <<"u", " ", "s", "e", "x">>,
       <<"o", "k">> >>
NumHookLines == 2
HookLines == {HookCorpus[i] : i \in 1..Min(NumHookLines, Len(HookCorpus))}
\* what the user does at most: lines typed, Enter and Backspace presses
MaxUserActions == 4

\* the probabilities of the first scoring, and of every re-scoring of a
\* masked text
HookProbs == {th_suggest - 1, th_suggest, th_enforce, 985}
HookRescoreProbs == {0, 880}

\* the model as one analyze call of line sees it
HookClassifier(line, p, q) ==
    [m \in ScoredTexts(line, p) |-> IF m = preprocess(line) THEN p ELSE q]

\* hash(line); the hashes of different lines are taken to differ
hash(t) == <<"hash">> \o t

KeyEvents(keys, synth) == [i \in 1..Len(keys) |-> [key |-> keys[i], synth |-> synth]]

\* the keys _enforce_in_active_window sends: one Backspace per character of
\* original, then the characters of replacement
InjectedKeys(original, replacement) ==
    [i \in 1..Len(original) |-> "Backspace"] \o replacement

DropLast(t, n) == SubSeq(t, 1, IF Len(t) > n THEN Len(t) - n ELSE 0)

\* the test before _enforce_in_active_window, mutant: the action is not
\* looked at
should_inject_any_action(action, out, line) == Strip(out) # Strip(line)

\* action in ("warn", "enforce") and out.strip() != line.strip()
should_inject(action, out, line) ==
    action \in {"warn", "enforce"} /\ Strip(out) # Strip(line)

\* last_hash after the injection, mutant: the hash of the line stays
hash_after_injection_kept(last, replacement) == last

\* last_hash = hash(replacement or "")
hash_after_injection(last, replacement) == hash(replacement)

UserMay ==
    /\ pc = "listening"
    /\ queue = << >> /\ ~injecting
    /\ hookLog.user < MaxUserActions

\* the user types a line into the active window
UserTypes(line) ==
    /\ UserMay
    /\ queue' = KeyEvents(line, FALSE)
    /\ window' = window \o line
    /\ hookLog' = [hookLog EXCEPT !.user = @ + 1]
    /\ lastEvent' = NoEvent
    /\ UNCHANGED <<coreVars, pc, constructVars, renderVars, threadVars, locVars,
                   buffer, injecting, enforcing, last_hash, entered>>

UserEnter ==
    /\ UserMay
    /\ queue' = KeyEvents(<<"Enter">>, FALSE)
    /\ hookLog' = [hookLog EXCEPT !.user = @ + 1]
    /\ lastEvent' = NoEvent
    /\ UNCHANGED <<coreVars, pc, constructVars, renderVars, threadVars, locVars,
                   buffer, injecting, enforcing, last_hash, entered, window>>

UserBackspace ==
    /\ UserMay
    /\ queue' = KeyEvents(<<"Backspace">>, FALSE)
    /\ window' = DropLast(window, 1)
    /\ hookLog' = [hookLog EXCEPT !.user = @ + 1]
    /\ lastEvent' = NoEvent
    /\ UNCHANGED <<coreVars, pc, constructVars, renderVars, threadVars, locVars,
                   buffer, injecting, enforcing, last_hash, entered>>

\* what every on_press call does first: it takes the next event
Handle ==
    /\ pc = "listening"
    /\ queue # << >>
    /\ lastEvent' = Head(queue)

HookQuiet ==
    UNCHANGED <<coreVars, pc, constructVars, renderVars, threadVars, locVars>>

\* on_press while injecting: return
PressIgnored ==
    /\ Handle /\ injecting
    /\ queue' = Tail(queue)
    /\ HookQuiet
    /\ UNCHANGED <<buffer, injecting, enforcing, last_hash, window, entered,
                   hookLog>>

\* on_press for a character key: buffer.append(ch)
PressChar ==
    /\ Handle /\ ~injecting
    /\ Head(queue).key \notin {"Enter", "Backspace"}
    /\ buffer' = Append(buffer, Head(queue).key)
    /\ queue' = Tail(queue)
    /\ HookQuiet
    /\ UNCHANGED <<injecting, enforcing, last_hash, window, entered, hookLog>>

\* on_press for Backspace: if buffer: buffer.pop()
PressBackspace ==
    /\ Handle /\ ~injecting
    /\ Head(queue).key = "Backspace"
    /\ buffer' = DropLast(buffer, 1)
    /\ queue' = Tail(queue)
    /\ HookQuiet
    /\ UNCHANGED <<injecting, enforcing, last_hash, window, entered, hookLog>>

\* on_press for an Enter that comes within ENTER_DEBOUNCE_MS of the one
\* before: return
PressEnterDebounced ==
    /\ Handle /\ ~injecting
    /\ Head(queue).key = "Enter"
    /\ entered
    /\ queue' = Tail(queue)
    /\ HookQuiet
    /\ UNCHANGED <<buffer, injecting, enforcing, last_hash, window, entered,
                   hookLog>>

\* on_press for Enter with a line that is blank or has the hash kept:
\* the buffer is cleared, and return
PressEnterSkipped ==
    /\ Handle /\ ~injecting
    /\ Head(queue).key = "Enter"
    /\ Strip(buffer) = << >> \/ hash(buffer) = last_hash
    /\ entered' = TRUE
    /\ buffer' = << >>
    /\ queue' = Tail(queue)
    /\ hookLog' = IF Strip(buffer) = << >> THEN hookLog
                  ELSE [hookLog EXCEPT !.skipped = @ + 1]
    /\ HookQuiet
    /\ UNCHANGED <<injecting, enforcing, last_hash, window>>

\* the rest of on_press for Enter once _process_line returned rep for the
\* result r: without an injection, or up to and with the keys that
\* _enforce_in_active_window sends
AfterProcessLine(line, r, rep) ==
    /\ memory' = r.memory
    /\ res' = ResultOf(r)
    /\ reported' = [by |-> "hook", action |-> rep.action, text |-> rep.text]
    /\ last_hash' = hash(line)
    /\ IF should_inject(rep.action, rep.text, line)
       THEN /\ injecting' = TRUE
            /\ enforcing' = [original |-> line, replacement |-> rep.text]
            /\ queue' = Tail(queue) \o KeyEvents(InjectedKeys(line, rep.text), TRUE)
            /\ window' = DropLast(window, Len(line)) \o rep.text
            /\ hookLog' = [hookLog EXCEPT !.analyzed = @ + 1, !.injected = @ + 1,
                                          !.line = line, !.recorded = line]
       ELSE /\ queue' = Tail(queue)
            /\ hookLog' = [hookLog EXCEPT !.analyzed = @ + 1, !.line = line,
                                          !.recorded = line]
            /\ UNCHANGED <<injecting, enforcing, window>>

ProcessedLine(line, r) == AfterProcessLine(line, r, _process_line(r))

\* on_press for Enter with a line to analyse
PressEnter(p, q) ==
    /\ Handle /\ ~injecting
    /\ Head(queue).key = "Enter"
    /\ ~(Strip(buffer) = << >> \/ hash(buffer) = last_hash)
    /\ base_action(p) = "pass" \/ memory_get(memory, preprocess(buffer)) < MaxCount
    /\ entered' = TRUE
    /\ buffer' = << >>
    /\ ProcessedLine(buffer, analyze(memory, buffer, HookClassifier(buffer, p, q)))
    /\ UNCHANGED <<call, hist, streak, mergeIn, mergeOut, normIn, normOut, anIn,
                   anOut, demoMemory, pc, constructVars, renderVars, threadVars,
                   locVars>>

\* the end of _enforce_in_active_window: the sleep is over, buffer.clear(),
\* last_hash = hash(replacement or ""), and injecting = False
EnforceEnd ==
    /\ pc = "listening"
    /\ injecting
    /\ buffer' = << >>
    /\ last_hash' = hash_after_injection(last_hash, enforcing.replacement)
    /\ injecting' = FALSE
    /\ enforcing' = NoEnforce
    /\ hookLog' = [hookLog EXCEPT !.replacement = enforcing.replacement,
                                  !.recorded = enforcing.replacement]
    /\ lastEvent' = NoEvent
    /\ HookQuiet
    /\ UNCHANGED <<queue, window, entered>>

InitHook ==
    /\ EscalatorIdle /\ PipelineIdle /\ MergeIdle /\ NormalizerIdle
    /\ AnalyzeIdle /\ DemoIdle
    /\ ConstructIdle /\ RenderIdle /\ ThreadsIdle /\ LocalizeIdle /\ HookIdle
    /\ pc = "listening"

NextHook ==
    \/ \E line \in HookLines : UserTypes(line)
    \/ UserEnter
    \/ UserBackspace
    \/ PressIgnored
    \/ PressChar
    \/ PressBackspace
    \/ PressEnterDebounced
    \/ PressEnterSkipped
    \/ \E p \in HookProbs, q \in HookRescoreProbs : PressEnter(p, q)
    \/ EnforceEnd

SpecHook == InitHook /\ [][NextHook]_vars

(***************************************************************************)
(* Claims on the keyboard hook, under SpecHook                             *)
(***************************************************************************)
\* an injection is over and every key it sent has been handled, and the
\* user has not done anything since
InjectionSettled ==
    /\ hookLog.injected > 0
    /\ queue = << >>
    /\ enforcing = NoEnforce
    /\ lastEvent.synth \/ lastEvent = NoEvent

\* C28 Keystrokes generated by the hook's own injection never change the
\* line buffer: the on_press call that handles one leaves the buffer as it
\* was; and once all events caused by an injection have been handled, the
\* buffer is empty and injecting is false, whether they were delivered
\* before or after the end of the injection.
C28_SyntheticIgnored ==
    /\ [](InjectionSettled => (buffer = << >> /\ ~injecting))
    /\ [][lastEvent'.synth => buffer' = buffer]_vars

\* the on_press call of this step neither analysed nor injected
NotAnalysed ==
    /\ hookLog'.analyzed = hookLog.analyzed
    /\ hookLog'.injected = hookLog.injected
    /\ memory' = memory
    /\ window' = window

Analysed == hookLog'.analyzed # hookLog.analyzed

\* C30 The hook rewrites the user's text only when the action _process_line
\* reports is warn or enforce and its output differs from the typed line
\* after trimming; for pass, for suggest, and after either safety downgrade
\* (analyze said enforce, _process_line reports warn) the typed text is not
\* modified and nothing is injected.
C30_InjectionOnlyOnChange ==
    /\ [][(window' # window /\ lastEvent' # NoEvent) =>
            /\ Analysed
            /\ reported'.action \in {"warn", "enforce"}
            /\ Strip(reported'.text) # Strip(res'.raw)
            /\ window' = DropLast(window, Len(res'.raw)) \o reported'.text]_vars
    /\ [][(/\ Analysed
           /\ \/ reported'.action \in {"pass", "suggest"}
              \/ res'.action = "enforce" /\ reported'.action = "warn")
            => (window' = window /\ ~injecting'
                /\ hookLog'.injected = hookLog.injected
                /\ \A k \in 1..Len(queue') : ~queue'[k].synth)]_vars

\* a line with a lexical hit was reported as suggest with its redacted text
\* and left alone, and an enforce that rested on spans of kind "ml" alone
\* was downgraded to warn and left alone
C30_Witness ==
    /\ reported.by = "hook" /\ hookLog.injected = 0 /\ hookLog.analyzed = 2
    /\ window = HookCorpus[1] \o HookCorpus[2]
    /\ res.raw = HookCorpus[2] /\ res.action = "enforce" /\ res.spans # << >>
    /\ reported.action = "warn"
    /\ memory_get(memory, preprocess(HookCorpus[1])) = 1

=============================================================================
